---- MODULE Spec2Model ----
(***************************************************************************)
(* A model of the copy-trading pipeline of polymarketbot: the activity     *)
(* poller, the event queue, the trade consumer, the risk gate, the order   *)
(* executor with its paper account, and the position tracker.              *)
(*                                                                         *)
(* Numbers.  The program computes with Python floats.  The model computes  *)
(* with exact rationals <<n, d>> (d > 0, lowest terms): every formula of   *)
(* the code is evaluated as written, without rounding.                     *)
(***************************************************************************)
EXTENDS Integers, Sequences, FiniteSets, TLC

\* ------------------------------------------------------------------------
\* Exact rational arithmetic (the model's stand-in for float)
\* ------------------------------------------------------------------------

Abs(x) == IF x < 0 THEN -x ELSE x

\* Euclid's algorithm (the remainder is bound by a quantifier so that it is
\* computed once)
RECURSIVE GCD(_, _)
GCD(a, b) == IF b = 0 THEN a ELSE CHOOSE g \in {GCD(b, r) : r \in {a % b}} : TRUE

\* n / d in lowest terms with a positive denominator
Reduce(n, d, g) ==
    IF g = 0 THEN <<0, 1>>
    ELSE IF d < 0 THEN <<(-n) \div g, (-d) \div g>>
    ELSE <<n \div g, d \div g>>

Rat(n, d) ==
    CHOOSE r \in {Reduce(nn, dd, GCD(Abs(nn), Abs(dd))) : nn \in {n}, dd \in {d}} : TRUE

RInt(n) == <<n, 1>>
RZero == <<0, 1>>
RAdd(x, y) == Rat(x[1] * y[2] + y[1] * x[2], x[2] * y[2])
RSub(x, y) == Rat(x[1] * y[2] - y[1] * x[2], x[2] * y[2])
RMul(x, y) == Rat(x[1] * y[1], x[2] * y[2])
RDiv(x, y) == Rat(x[1] * y[2], x[2] * y[1])
RLt(x, y) == x[1] * y[2] < y[1] * x[2]
RLe(x, y) == x[1] * y[2] <= y[1] * x[2]
RGt(x, y) == RLt(y, x)
RGe(x, y) == RLe(y, x)
RNeg(x) == <<-x[1], x[2]>>
RMin(x, y) == IF RLe(x, y) THEN x ELSE y

\* ------------------------------------------------------------------------
\* Small helpers for dictionaries (functions with a finite domain)
\* ------------------------------------------------------------------------

EmptyDict == [k \in {} |-> 0]
DictDel(d, k) == [j \in (DOMAIN d) \ {k} |-> d[j]]
DictPut(d, k, v) == [j \in (DOMAIN d) \cup {k} |-> IF j = k THEN v ELSE d[j]]

\* str.lower() on the side strings the program meets
Lower(s) ==
    CASE s = "BUY" -> "buy"
      [] s = "SELL" -> "sell"
      [] s = "HOLD" -> "hold"
      [] s = "0xABC" -> "0xabc"
      [] OTHER -> s

\* ------------------------------------------------------------------------
\* Bounds and input sets
\* ------------------------------------------------------------------------

\* initial_balance of the paper account, in currency units
InitialBalance == 10
\* number of ledger calls explored by the ledger specification
MaxOps == 3

Markets == {"M1", "M2"}
\* sides as callers pass them: lower case, upper case, and one that is neither
CallSides == {"buy", "SELL", "hold"}
OrderSizes == {RInt(5), RInt(10)}
\* prices are probabilities in (0, 1]: 0.40 and 0.70
OrderPrices == {Rat(2, 5), Rat(7, 10)}

VARIABLES
    now,            \* wall clock (time.time(), datetime.now()), in seconds
    paper,          \* PaperTradingAccount: balance, positions, trades, total_pnl
    paper_file,     \* content of PaperTradingAccount.data_file
    tracker,        \* PositionTracker: positions, closed_positions, realized_pnl_total
    tracker_file,   \* content of PositionTracker.data_file
    calls,          \* history: the ledger calls made so far, with state before and after
    today,          \* datetime.now().date(), as a day number
    risk,           \* RiskManager: its limits and its daily state
    risk_last,      \* history: the last RiskManager call, its arguments and its result
    risk_ops,       \* history: number of RiskManager calls made so far
    config,         \* CopyTradingMode's configuration (self.config and what __init__ reads from it)
    feed,           \* the items the Data API can serve for the target wallet
    running,        \* CopyTradingMode.running
    run_pc,         \* where run() stands: idle, wait, gather, returned
    task,           \* where each of the three asyncio tasks is suspended
    cancel_req,     \* the tasks run() has cancelled and that have not yet seen it
    last_ts,        \* CopyTradingMode._last_ts, the cursor
    backoff,        \* the poller's backoff delay, in tenths of a second
    fails,          \* history: failed polls in a row
    q,              \* CopyTradingMode._q; each entry carries its enqueue number
    processed_trades, \* CopyTradingMode.processed_trades, the dedup cache
    inflight,       \* the order handed to asyncio.to_thread and its result
    fetched,        \* history: number of items the feed has served
    enq_count,      \* history: number of items put into the queue
    page,           \* history: the last response the poller received (kind, largest timestamp)
    log,            \* history: what the consumer did with each dequeued item
    orders,         \* history: the orders submitted to the OrderExecutor
    stop_called     \* history: stop() has been called

ledgerVars == <<paper, paper_file, tracker, tracker_file, calls>>
riskVars == <<today, risk, risk_last, risk_ops>>
pipeVars == <<config, feed, running, run_pc, task, cancel_req, last_ts, backoff,
              fails, q, processed_trades, inflight, fetched, enq_count, page,
              log, orders, stop_called>>
vars == <<now, paper, paper_file, tracker, tracker_file, calls,
          today, risk, risk_last, risk_ops,
          config, feed, running, run_pc, task, cancel_req, last_ts, backoff,
          fails, q, processed_trades, inflight, fetched, enq_count, page,
          log, orders, stop_called>>

\* ------------------------------------------------------------------------
\* PaperTradingAccount (src/src/polymarket/paper_trading.py)
\* ------------------------------------------------------------------------

NoFile == [exists |-> FALSE]

PaperInit ==
    [balance |-> RInt(InitialBalance),
     positions |-> EmptyDict,
     trades |-> <<>>,
     total_pnl |-> RZero]

\* the document _save_data writes
PaperSaveData(acct, ts) ==
    [exists |-> TRUE,
     initial_balance |-> RInt(InitialBalance),
     balance |-> acct.balance,
     positions |-> acct.positions,
     trades |-> acct.trades,
     total_pnl |-> acct.total_pnl,
     last_updated |-> ts]

\* _load_data ignores the file
PaperLoadDataFresh(file) == PaperInit

\* the account a new PaperTradingAccount holds after _load_data: the fields
\* of the document, or the constructor's values when there is no file or
\* json.load fails on it
PaperLoadData(file) ==
    IF ~file.exists \/ "content" \in DOMAIN file
    THEN PaperInit
    ELSE [balance |-> file.balance,
          positions |-> file.positions,
          trades |-> file.trades,
          total_pnl |-> file.total_pnl]

\* a mutant of PaperFail: the failure path writes the file as well
PaperFailSaves(acct, file, err) ==
    [acct |-> acct, file |-> [file EXCEPT !.exists = TRUE],
     result |-> [success |-> FALSE, error |-> err,
                 balance |-> acct.balance, pnl |-> acct.total_pnl]]

\* a failed place_order: nothing is changed, nothing is written
PaperFail(acct, file, err) ==
    [acct |-> acct, file |-> file,
     result |-> [success |-> FALSE, error |-> err,
                 balance |-> acct.balance, pnl |-> acct.total_pnl]]

PaperDone(acct, market_id, market_name, side, size, price, ts) ==
    LET trade == [timestamp |-> ts, market_id |-> market_id,
                  market_name |-> market_name, side |-> side, size |-> size,
                  price |-> price, cost |-> RMul(size, price),
                  balance_after |-> acct.balance]
        acct2 == [acct EXCEPT !.trades = Append(@, trade)]
    IN  [acct |-> acct2, file |-> PaperSaveData(acct2, ts),
         result |-> [success |-> TRUE, error |-> "",
                     balance |-> acct2.balance, pnl |-> acct2.total_pnl]]

\* a mutant of PaperAvgPrice: the plain mean of the two prices
PaperAvgPriceMean(old_size, old_avg, size, price) ==
    RDiv(RAdd(old_avg, price), RInt(2))

\* the average price of a position after a buy that adds to it
PaperAvgPrice(old_size, old_avg, size, price) ==
    RDiv(RAdd(RMul(old_size, old_avg), RMul(size, price)), RAdd(old_size, size))

\* a mutant of PaperSellPnl: the proceeds instead of the gain
PaperSellPnlProceeds(size, price, avg_price) == RMul(size, price)

\* a sell realizes no PnL
PaperSellPnlZero(size, price, avg_price) == RZero

\* the PnL a sell realizes
PaperSellPnl(size, price, avg_price) == RMul(size, RSub(price, avg_price))

PaperBuy(acct, file, market_id, market_name, side, size, price, ts) ==
    LET cost == RMul(size, price) IN
    IF RGt(cost, acct.balance)
    THEN PaperFail(acct, file, "Insufficient balance")
    ELSE
      LET bal == RSub(acct.balance, cost)
          newpos ==
            IF market_id \in DOMAIN acct.positions
            THEN LET pos == acct.positions[market_id]
                     total_shares == RAdd(pos.size, size)
                     avg_price == PaperAvgPrice(pos.size, pos.avg_price, size, price)
                 IN  [pos EXCEPT !.size = total_shares, !.avg_price = avg_price]
            ELSE [market_id |-> market_id, market_name |-> market_name,
                  side |-> "long", size |-> size, avg_price |-> price,
                  entry_time |-> ts]
          acct1 == [acct EXCEPT !.balance = bal,
                                !.positions = DictPut(@, market_id, newpos)]
      IN  PaperDone(acct1, market_id, market_name, side, size, price, ts)

\* a sell that keeps the position it has emptied
PaperSellKeepsEmpty(acct, file, market_id, market_name, side, size, price, ts) ==
    IF market_id \notin DOMAIN acct.positions
    THEN PaperFail(acct, file, "No position to sell")
    ELSE
      LET pos == acct.positions[market_id] IN
      IF RLt(pos.size, size)
      THEN PaperFail(acct, file, "Insufficient position size")
      ELSE
        LET pnl == PaperSellPnl(size, price, pos.avg_price)
            left == RSub(pos.size, size)
            acct1 == [acct EXCEPT
                        !.total_pnl = RAdd(@, pnl),
                        !.balance = RAdd(@, RMul(size, price)),
                        !.positions = DictPut(@, market_id, [pos EXCEPT !.size = left])]
        IN  PaperDone(acct1, market_id, market_name, side, size, price, ts)

\* the sell branch of place_order
PaperSell(acct, file, market_id, market_name, side, size, price, ts) ==
    IF market_id \notin DOMAIN acct.positions
    THEN PaperFail(acct, file, "No position to sell")
    ELSE
      LET pos == acct.positions[market_id] IN
      IF RLt(pos.size, size)
      THEN PaperFail(acct, file, "Insufficient position size")
      ELSE
        LET pnl == PaperSellPnl(size, price, pos.avg_price)
            left == RSub(pos.size, size)
            acct1 == [acct EXCEPT
                        !.total_pnl = RAdd(@, pnl),
                        !.balance = RAdd(@, RMul(size, price)),
                        !.positions =
                            IF RLe(left, RZero)
                            THEN DictDel(@, market_id)
                            ELSE DictPut(@, market_id, [pos EXCEPT !.size = left])]
        IN  PaperDone(acct1, market_id, market_name, side, size, price, ts)

\* place_order: the account, the file and the result after the call
PlaceOrder(acct, file, market_id, market_name, side, size, price, ts) ==
    IF Lower(side) = "buy"
    THEN PaperBuy(acct, file, market_id, market_name, side, size, price, ts)
    ELSE IF Lower(side) = "sell"
    THEN PaperSell(acct, file, market_id, market_name, side, size, price, ts)
    ELSE PaperDone(acct, market_id, market_name, side, size, price, ts)

\* ------------------------------------------------------------------------
\* PositionTracker (src/src/utils/position_tracker.py)
\* ------------------------------------------------------------------------

\* max_closed: how many closed positions are retained
MaxClosed == 2

TrackerInit ==
    [max_closed |-> MaxClosed,
     positions |-> EmptyDict,
     closed_positions |-> <<>>,
     realized_pnl_total |-> RZero]

\* the document _save_data writes
TrackerSaveData(tr, ts) ==
    [exists |-> TRUE,
     positions |-> tr.positions,
     closed_positions |-> tr.closed_positions,
     realized_pnl_total |-> tr.realized_pnl_total,
     last_updated |-> ts]

\* the tracker a new PositionTracker(max_closed) holds after _load_data
TrackerLoadData(file, max_closed) ==
    IF ~file.exists \/ "content" \in DOMAIN file
    THEN [TrackerInit EXCEPT !.max_closed = max_closed]
    ELSE [max_closed |-> max_closed,
          positions |-> file.positions,
          closed_positions |-> file.closed_positions,
          realized_pnl_total |-> file.realized_pnl_total]

\* lst[-n:] of Python
LastN(lst, n) ==
    IF n = 0 \/ n >= Len(lst) THEN lst
    ELSE SubSeq(lst, Len(lst) - n + 1, Len(lst))

\* the average price of a position after a buy that adds to it
TrackerAvgPrice(old_size, old_avg, size, price) ==
    RDiv(RAdd(RMul(old_size, old_avg), RMul(size, price)), RAdd(old_size, size))

TrackerBuy(tr, file, market_id, market_name, size, price, ts) ==
    IF market_id \in DOMAIN tr.positions
    THEN LET position == tr.positions[market_id]
             total_size == RAdd(position.size, size)
             avg_price == TrackerAvgPrice(position.size, position.avg_price, size, price)
             tr1 == [tr EXCEPT !.positions[market_id] =
                        [position EXCEPT !.size = total_size,
                                         !.avg_price = avg_price,
                                         !.last_update = ts]]
         IN  [tr |-> tr1, file |-> TrackerSaveData(tr1, ts),
              status |-> "increased", realized_pnl |-> RZero]
    ELSE LET position == [market_id |-> market_id, market_name |-> market_name,
                          size |-> size, avg_price |-> price,
                          entry_time |-> ts, last_update |-> ts]
             tr1 == [tr EXCEPT !.positions = DictPut(@, market_id, position)]
         IN  [tr |-> tr1, file |-> TrackerSaveData(tr1, ts),
              status |-> "opened", realized_pnl |-> RZero]

\* a mutant of TrackerUnmatched: the sell opens a short position
TrackerUnmatchedShort(tr, file, market_id, size, price, ts) ==
    LET tr1 == [tr EXCEPT !.positions = DictPut(@, market_id,
                   [market_id |-> market_id, market_name |-> market_id,
                    size |-> RNeg(size), avg_price |-> price,
                    entry_time |-> ts, last_update |-> ts])]
    IN  [tr |-> tr1, file |-> TrackerSaveData(tr1, ts),
         status |-> "unmatched_sell", realized_pnl |-> RZero]

\* a sell on a market with no open position
TrackerUnmatched(tr, file, market_id, size, price, ts) ==
    [tr |-> tr, file |-> file,
     status |-> "unmatched_sell", realized_pnl |-> RZero]

TrackerSell(tr, file, market_id, size, price, ts) ==
    IF market_id \notin DOMAIN tr.positions
    THEN TrackerUnmatched(tr, file, market_id, size, price, ts)
    ELSE
      LET position == tr.positions[market_id]
          sell_size == RMin(size, position.size)
          realized_pnl == RMul(sell_size, RSub(price, position.avg_price))
          total == RAdd(tr.realized_pnl_total, realized_pnl)
      IN  IF RGe(sell_size, position.size)
          THEN LET closed == [market_id |-> market_id,
                              market_name |-> position.market_name,
                              size |-> position.size,
                              avg_entry_price |-> position.avg_price,
                              exit_price |-> price,
                              realized_pnl |-> realized_pnl,
                              entry_time |-> position.entry_time,
                              exit_time |-> ts]
                   tr1 == [tr EXCEPT
                             !.realized_pnl_total = total,
                             !.closed_positions = LastN(Append(@, closed), tr.max_closed),
                             !.positions = DictDel(@, market_id)]
               IN  [tr |-> tr1, file |-> TrackerSaveData(tr1, ts),
                    status |-> "closed", realized_pnl |-> realized_pnl]
          ELSE LET tr1 == [tr EXCEPT
                             !.realized_pnl_total = total,
                             !.positions[market_id] =
                                 [position EXCEPT
                                    !.size = RSub(position.size, sell_size),
                                    !.last_update = ts]]
               IN  [tr |-> tr1, file |-> TrackerSaveData(tr1, ts),
                    status |-> "reduced", realized_pnl |-> realized_pnl]

\* a mutant of RecordTrade: every side other than sell is taken as a buy
RecordTradeBuyDefault(tr, file, market_id, market_name, side, size, price, ts) ==
    IF Lower(side) = "sell"
    THEN TrackerSell(tr, file, market_id, size, price, ts)
    ELSE TrackerBuy(tr, file, market_id, market_name, size, price, ts)

\* record_trade: the tracker, the file, the status and the realized PnL
RecordTrade(tr, file, market_id, market_name, side, size, price, ts) ==
    IF Lower(side) = "buy"
    THEN TrackerBuy(tr, file, market_id, market_name, size, price, ts)
    ELSE IF Lower(side) = "sell"
    THEN TrackerSell(tr, file, market_id, size, price, ts)
    ELSE [tr |-> tr, file |-> file, status |-> "ignored", realized_pnl |-> RZero]

\* ------------------------------------------------------------------------
\* RiskManager (src/src/risk/risk_manager.py)
\* ------------------------------------------------------------------------

RiskInit(max_bet_size, min_balance_threshold, daily_loss_limit, max_daily_trades, date) ==
    [max_bet_size |-> max_bet_size,
     min_balance_threshold |-> min_balance_threshold,
     daily_loss_limit |-> daily_loss_limit,
     max_daily_trades |-> max_daily_trades,
     daily_trades |-> <<>>,
     daily_pnl |-> RZero,
     last_reset_date |-> date,
     emergency_stop |-> FALSE]

\* _reset_daily_stats without its effect
ResetDailyStatsNever(r, current_date) == r

\* _reset_daily_stats: the lazy daily reset
ResetDailyStats(r, current_date) ==
    IF current_date > r.last_reset_date
    THEN [r EXCEPT !.daily_trades = <<>>, !.daily_pnl = RZero,
                   !.last_reset_date = current_date]
    ELSE r

ReasonEmergency == "Emergency stop activated"
ReasonMaxBet == "Trade cost exceeds max bet size"
ReasonBalance == "Insufficient balance for trade cost"
ReasonThreshold == "Trade would bring balance below minimum threshold"
ReasonDailyTrades == "Daily trade limit reached"
ReasonDailyLoss == "Daily loss limit reached"
ReasonPassed == "All risk checks passed"

\* a mutant of RiskDecision: the max bet size is tested before the emergency stop
RiskDecisionSwapped(r, size, price, balance) ==
    LET trade_cost == RMul(size, price) IN
    IF RGt(trade_cost, r.max_bet_size)
    THEN [allowed |-> FALSE, reason |-> ReasonMaxBet]
    ELSE IF r.emergency_stop
    THEN [allowed |-> FALSE, reason |-> ReasonEmergency]
    ELSE IF RLt(balance, trade_cost)
    THEN [allowed |-> FALSE, reason |-> ReasonBalance]
    ELSE IF RLt(RSub(balance, trade_cost), r.min_balance_threshold)
    THEN [allowed |-> FALSE, reason |-> ReasonThreshold]
    ELSE IF r.max_daily_trades > 0 /\ Len(r.daily_trades) >= r.max_daily_trades
    THEN [allowed |-> FALSE, reason |-> ReasonDailyTrades]
    ELSE IF RGt(r.daily_loss_limit, RZero) /\ RLt(r.daily_pnl, RNeg(r.daily_loss_limit))
    THEN [allowed |-> FALSE, reason |-> ReasonDailyLoss]
    ELSE [allowed |-> TRUE, reason |-> ReasonPassed]

\* check_pre_trade without the minimum-balance threshold rule
RiskDecisionNoThreshold(r, size, price, balance) ==
    LET trade_cost == RMul(size, price) IN
    IF r.emergency_stop
    THEN [allowed |-> FALSE, reason |-> ReasonEmergency]
    ELSE IF RGt(trade_cost, r.max_bet_size)
    THEN [allowed |-> FALSE, reason |-> ReasonMaxBet]
    ELSE IF RLt(balance, trade_cost)
    THEN [allowed |-> FALSE, reason |-> ReasonBalance]
    ELSE IF r.max_daily_trades > 0 /\ Len(r.daily_trades) >= r.max_daily_trades
    THEN [allowed |-> FALSE, reason |-> ReasonDailyTrades]
    ELSE IF RGt(r.daily_loss_limit, RZero) /\ RLt(r.daily_pnl, RNeg(r.daily_loss_limit))
    THEN [allowed |-> FALSE, reason |-> ReasonDailyLoss]
    ELSE [allowed |-> TRUE, reason |-> ReasonPassed]

\* the decision of check_pre_trade on a risk state whose daily reset is done
RiskDecision(r, size, price, balance) ==
    LET trade_cost == RMul(size, price) IN
    IF r.emergency_stop
    THEN [allowed |-> FALSE, reason |-> ReasonEmergency]
    ELSE IF RGt(trade_cost, r.max_bet_size)
    THEN [allowed |-> FALSE, reason |-> ReasonMaxBet]
    ELSE IF RLt(balance, trade_cost)
    THEN [allowed |-> FALSE, reason |-> ReasonBalance]
    ELSE IF RLt(RSub(balance, trade_cost), r.min_balance_threshold)
    THEN [allowed |-> FALSE, reason |-> ReasonThreshold]
    ELSE IF r.max_daily_trades > 0 /\ Len(r.daily_trades) >= r.max_daily_trades
    THEN [allowed |-> FALSE, reason |-> ReasonDailyTrades]
    ELSE IF RGt(r.daily_loss_limit, RZero) /\ RLt(r.daily_pnl, RNeg(r.daily_loss_limit))
    THEN [allowed |-> FALSE, reason |-> ReasonDailyLoss]
    ELSE [allowed |-> TRUE, reason |-> ReasonPassed]

\* check_pre_trade: the risk state after the call and the decision
CheckPreTrade(r, size, price, balance, current_date) ==
    LET r1 == ResetDailyStats(r, current_date)
        d == RiskDecision(r1, size, price, balance)
    IN  [risk |-> r1, allowed |-> d.allowed, reason |-> d.reason]

\* record_trade without the append to the daily trade log
RiskRecordTradeNoLog(r, trade_data, current_date) ==
    ResetDailyStats(r, current_date)

\* record_trade; trade_data.has_pnl stands for 'pnl' in trade_data
RiskRecordTrade(r, trade_data, current_date) ==
    LET r1 == ResetDailyStats(r, current_date)
        r2 == [r1 EXCEPT !.daily_trades = Append(@, trade_data)]
    IN  IF trade_data.has_pnl
        THEN [r2 EXCEPT !.daily_pnl = RAdd(@, trade_data.pnl)]
        ELSE r2

ActivateEmergencyStop(r) == [r EXCEPT !.emergency_stop = TRUE]
DeactivateEmergencyStop(r) == [r EXCEPT !.emergency_stop = FALSE]

\* ------------------------------------------------------------------------
\* The ledger specification: any sequence of calls on the two ledgers
\* ------------------------------------------------------------------------

MarketName(m) == m

\* ------------------------------------------------------------------------
\* OrderExecutor (src/src/polymarket/order_executor.py), paper strategy
\* ------------------------------------------------------------------------

\* validate_order without the price check
ValidateOrderNoPrice(token_id, side, size, price) ==
    (IF token_id = "" THEN <<"Invalid token_id">> ELSE <<>>)
    \o (IF Lower(side) \notin {"buy", "sell"} THEN <<"Invalid side">> ELSE <<>>)
    \o (IF RLe(size, RZero) THEN <<"Size must be greater than 0">> ELSE <<>>)

\* validate_order: the list of errors
ValidateOrder(token_id, side, size, price) ==
    (IF token_id = "" THEN <<"Invalid token_id">> ELSE <<>>)
    \o (IF Lower(side) \notin {"buy", "sell"} THEN <<"Invalid side">> ELSE <<>>)
    \o (IF RLe(size, RZero) THEN <<"Size must be greater than 0">> ELSE <<>>)
    \o (IF RLe(price, RZero) \/ RGt(price, RInt(1))
        THEN <<"Price must be between 0 and 1">> ELSE <<>>)

\* execute_limit_order with paper_trading = True: account, file and result
ExecuteLimitOrder(acct, file, o, ts) ==
    IF ValidateOrder(o.token_id, o.side, o.size, o.price) # <<>>
    THEN [acct |-> acct, file |-> file,
          result |-> [success |-> FALSE, error |-> "Validation failed",
                      price |-> o.price, balance |-> acct.balance,
                      pnl |-> acct.total_pnl]]
    ELSE LET r == PlaceOrder(acct, file,
                             IF o.market_id # "" THEN o.market_id ELSE o.token_id,
                             o.market_name, o.side, o.size, o.price, ts)
         IN  [acct |-> r.acct, file |-> r.file,
              result |-> [success |-> r.result.success, error |-> r.result.error,
                          price |-> o.price, balance |-> r.result.balance,
                          pnl |-> r.result.pnl]]

\* ------------------------------------------------------------------------
\* CopyTradingMode (src/src/modes/copy_trading.py): helpers
\* ------------------------------------------------------------------------

\* The cutoff below which _ts_to_ms reads a timestamp as seconds.  The source
\* has 10_000_000_000, which TLC's 32-bit integers cannot hold; the model's
\* clock starts near 0 instead of near 1.7 * 10^9 and the cutoff is moved
\* with it, so that, as in the program, every second-valued timestamp of the
\* feed lies below the cutoff and every millisecond-valued one at or above it.
SecondsCutoff == 1000
MsPerSecond == 1000

\* _last_ts = None
NoCursor == -1

\* the poller's first backoff delay and its cap, in tenths of a second
BackoffStart == 2
BackoffCap == 50

\* The dedup cache is shrunk when it holds more than DedupeHigh keys, to
\* DedupeKeep of them.  The source has 3000 and 1500; the model scales both
\* down (the shrink happens at DedupeHigh + 1 keys and keeps half of them).
DedupeHigh == 1
DedupeKeep == 1

Min(a, b) == IF a < b THEN a ELSE b
Max(a, b) == IF a > b THEN a ELSE b

\* _now_ms, for a clock that reads now_s seconds
NowMs(now_s) == now_s * MsPerSecond

\* int(it.get("timestamp", 0)) in the poller; defined when ts_kind # "bad"
PollerTs(it) == IF it.ts_kind = "missing" THEN 0 ELSE it.ts

\* a mutant of TsToMs: every timestamp is read as seconds
TsToMsSecondsOnly(it, now_ms) ==
    IF it.ts_kind # "int" THEN now_ms ELSE it.ts * MsPerSecond

\* _ts_to_ms(it.get("timestamp")): int() fails on a missing timestamp
TsToMs(it, now_ms) ==
    IF it.ts_kind # "int" THEN now_ms
    ELSE IF it.ts < SecondsCutoff THEN it.ts * MsPerSecond
    ELSE it.ts

\* the age the latency gate computes
AgeMs(it, now_s) == NowMs(now_s) - TsToMs(it, NowMs(now_s))

\* the latency gate lets every event pass
IsStaleNever(it, now_s, max_delay) == FALSE

\* the latency gate of _consume_loop
IsStale(it, now_s, max_delay) ==
    max_delay # 0 /\ AgeMs(it, now_s) > max_delay * MsPerSecond

\* the event normalized by _consume_loop
TradeData(it) ==
    [tx_hash |-> it.tx,
     wallet |-> it.wallet,
     market |-> it.market,
     token_id |-> it.asset,
     side |-> Lower(it.side),
     size |-> it.size,
     price |-> IF it.price = RZero THEN Rat(1, 2) ELSE it.price,
     ts_kind |-> it.ts_kind,
     timestamp |-> it.ts,
     market_name |-> IF it.title # "" THEN it.title ELSE it.market]

\* _generate_trade_id: the transaction hash, or wallet_market_timestamp_side
GenerateTradeId(td) ==
    IF td.tx_hash # ""
    THEN <<td.tx_hash>>
    ELSE <<td.wallet, td.market,
           IF td.ts_kind = "int" THEN td.timestamp ELSE NoCursor, td.side>>

\* a mutant of AlreadyProcessed: the cache is never consulted
AlreadyProcessedNever(trade_id, processed) == FALSE

\* trade_id in self.processed_trades
AlreadyProcessed(trade_id, processed) == trade_id \in processed

\* the check of _consume_loop made before the latency gate
PreDuplicate(it, processed) ==
    it.tx # "" /\ AlreadyProcessed(<<it.tx>>, processed)

\* the cache is never shrunk
ShrinkDedupeSetNever(processed) == {processed}

\* _shrink_dedupe_set: the sets the cache can become.  list(set)[-n:] takes
\* n elements in the set's iteration order, which is any order.
ShrinkDedupeSet(processed) ==
    IF Cardinality(processed) > DedupeHigh
    THEN {K \in SUBSET processed : Cardinality(K) = DedupeKeep}
    ELSE {processed}

\* the size _handle_user_trade replicates
ScaledSize(cfg, side, size, price, balance) ==
    IF RGt(cfg.position_size_pct, RZero) /\ side = "buy"
    THEN IF RGt(price, RZero)
         THEN RDiv(RMul(balance, cfg.position_size_pct), price)
         ELSE RZero
    ELSE RMul(size, cfg.position_scale)

\* asyncio.Queue.full(): a queue of maxsize <= 0 is unbounded and never full
QueueFull(queue, queue_max) == queue_max > 0 /\ Len(queue) >= queue_max

\* a mutant of Enqueue: a full queue drops the new item
EnqueueDropNewest(queue, entry, queue_max) ==
    IF QueueFull(queue, queue_max) THEN queue ELSE Append(queue, entry)

\* a full queue is left as it is
MakeRoomNever(queue, queue_max) == queue

\* if self._q.full(): _ = self._q.get_nowait()
MakeRoom(queue, queue_max) ==
    IF QueueFull(queue, queue_max) THEN Tail(queue) ELSE queue

\* a put waits for as long as an order is with the executor
PutWaitsInFlight(queue, queue_max) == inflight.state # "none"

\* await self._q.put(it) suspends the poller when the queue is full at the put
PutWaits(queue, queue_max) == QueueFull(MakeRoom(queue, queue_max), queue_max)

\* one turn of the poller's enqueue loop: make room, then put
Enqueue(queue, entry, queue_max) == Append(MakeRoom(queue, queue_max), entry)

RECURSIVE EnqueueAll(_, _, _, _)
EnqueueAll(queue, items, first_seq, queue_max) ==
    IF items = <<>> THEN queue
    ELSE EnqueueAll(Enqueue(queue, [item |-> Head(items), seq |-> first_seq], queue_max),
                    Tail(items), first_seq + 1, queue_max)

\* some put of the enqueue loop over a page suspends the poller
RECURSIVE EnqueueWaits(_, _, _)
EnqueueWaits(queue, items, queue_max) ==
    /\ items # <<>>
    /\ \/ PutWaits(queue, queue_max)
       \/ EnqueueWaits(Enqueue(queue, [item |-> Head(items), seq |-> 0], queue_max),
                       Tail(items), queue_max)

\* a mutant of CursorStep: the cursor follows the item
CursorStepFollow(cursor, ts) == ts

\* one turn of the poller's cursor loop:
\* if self._last_ts is None or ts > self._last_ts: self._last_ts = ts
CursorStep(cursor, ts) == IF cursor = NoCursor \/ ts > cursor THEN ts ELSE cursor

\* the poller's cursor loop over a page
RECURSIVE AdvanceCursor(_, _)
AdvanceCursor(cursor, items) ==
    IF items = <<>> THEN cursor
    ELSE AdvanceCursor(CursorStep(cursor, PollerTs(Head(items))), Tail(items))

\* the items of a page before the first one whose timestamp int() rejects
RECURSIVE GoodPrefix(_)
GoodPrefix(items) ==
    IF items = <<>> \/ Head(items).ts_kind = "bad" THEN <<>>
    ELSE <<Head(items)>> \o GoodPrefix(Tail(items))

\* the delay is doubled without a cap
NextBackoffNoCap(b) == b * 2

\* the backoff delay after one more failure
NextBackoff(b) == Min(b * 2, BackoffCap)

Tasks == {"poller", "consumer", "status"}
Final == {"done", "failed", "cancelled"}

NoOrder ==
    [token_id |-> "", side |-> "", size |-> RZero, price |-> RZero,
     market_id |-> "", market_name |-> ""]
NoResult ==
    [success |-> FALSE, error |-> "", price |-> RZero, balance |-> RZero,
     pnl |-> RZero]
NoInflight == [state |-> "none", order |-> NoOrder, result |-> NoResult]
NoPage == [kind |-> "none", max_ts |-> NoCursor]

\* the largest timestamp of a page as the poller reads it; NoCursor if empty
MaxTs(items) ==
    IF items = <<>> THEN NoCursor
    ELSE CHOOSE t \in {PollerTs(items[i]) : i \in 1..Len(items)} :
            \A i \in 1..Len(items) : PollerTs(items[i]) <= t

TargetWallet == "0xabc"

DefaultConfig ==
    [target_wallet |-> TargetWallet,
     position_scale |-> RInt(1),
     position_size_pct |-> RZero,
     max_delay |-> 0,
     queue_max |-> 1,
     batch_limit |-> 2]

PipeIdle ==
    /\ config = DefaultConfig
    /\ feed = {}
    /\ running = FALSE
    /\ run_pc = "idle"
    /\ task = [t \in Tasks |-> "none"]
    /\ cancel_req = {}
    /\ last_ts = NoCursor
    /\ backoff = BackoffStart
    /\ fails = 0
    /\ q = <<>>
    /\ processed_trades = {}
    /\ inflight = NoInflight
    /\ fetched = 0
    /\ enq_count = 0
    /\ page = NoPage
    /\ log = <<>>
    /\ orders = <<>>
    /\ stop_called = FALSE

\* the limits main.py passes when the configuration names none:
\* max_bet_size 100, min_balance_threshold 10, no daily limits
DefaultMaxBet == 100
DefaultMinBalance == 10

NoRiskCall ==
    [op |-> "none", size |-> RZero, price |-> RZero, balance |-> RZero,
     before |-> RiskInit(RZero, RZero, RZero, 0, 0), date |-> 0,
     allowed |-> FALSE, reason |-> ""]

RiskIdle ==
    /\ today = 0
    /\ risk = RiskInit(RInt(DefaultMaxBet), RInt(DefaultMinBalance), RZero, 0, 0)
    /\ risk_last = NoRiskCall
    /\ risk_ops = 0

LedgerIdle ==
    /\ paper = PaperInit
    /\ paper_file = NoFile
    /\ tracker = TrackerInit
    /\ tracker_file = NoFile
    /\ calls = <<>>

InitLedger ==
    /\ RiskIdle
    /\ PipeIdle
    /\ now = 0
    /\ LedgerIdle

\* The two ledgers share no state, so a behaviour that interleaves calls on
\* both reaches no ledger state that a behaviour calling one of them does not:
\* each behaviour of this specification calls one ledger only.
OnlyLedger(l) == \A i \in 1..Len(calls) : calls[i].ledger = l

\* a caller invokes PaperTradingAccount.place_order
PaperCall(m, side, size, price) ==
    /\ Len(calls) < MaxOps
    /\ OnlyLedger("paper")
    /\ LET r == PlaceOrder(paper, paper_file, m, MarketName(m), side, size, price, now)
       IN  /\ paper' = r.acct
           /\ paper_file' = r.file
           /\ calls' = Append(calls,
                 [ledger |-> "paper", market |-> m, side |-> side, size |-> size,
                  price |-> price, ok |-> r.result.success, status |-> "",
                  realized_pnl |-> RZero, crashed |-> FALSE,
                  before |-> [paper |-> paper, tracker |-> tracker,
                              paper_file |-> paper_file, tracker_file |-> tracker_file],
                  after |-> [paper |-> r.acct, tracker |-> tracker,
                             paper_file |-> r.file, tracker_file |-> tracker_file]])
    /\ now' = now + 1
    /\ UNCHANGED <<tracker, tracker_file>>
    /\ UNCHANGED riskVars
    /\ UNCHANGED pipeVars

\* a caller invokes PositionTracker.record_trade
TrackerCall(m, side, size, price) ==
    /\ Len(calls) < MaxOps
    /\ OnlyLedger("tracker")
    /\ LET r == RecordTrade(tracker, tracker_file, m, MarketName(m), side, size, price, now)
       IN  /\ tracker' = r.tr
           /\ tracker_file' = r.file
           /\ calls' = Append(calls,
                 [ledger |-> "tracker", market |-> m, side |-> side, size |-> size,
                  price |-> price, ok |-> TRUE, status |-> r.status,
                  realized_pnl |-> r.realized_pnl, crashed |-> FALSE,
                  before |-> [paper |-> paper, tracker |-> tracker,
                              paper_file |-> paper_file, tracker_file |-> tracker_file],
                  after |-> [paper |-> paper, tracker |-> r.tr,
                             paper_file |-> paper_file, tracker_file |-> r.file]])
    /\ now' = now + 1
    /\ UNCHANGED <<paper, paper_file>>
    /\ UNCHANGED riskVars
    /\ UNCHANGED pipeVars

NextLedger ==
    \/ \E m \in Markets, side \in CallSides, size \in OrderSizes, price \in OrderPrices :
          PaperCall(m, side, size, price)
    \/ \E m \in Markets, side \in CallSides, size \in OrderSizes, price \in OrderPrices :
          TrackerCall(m, side, size, price)

SpecLedger == InitLedger /\ [][NextLedger]_vars

\* ------------------------------------------------------------------------
\* The order executor called directly, with valid and invalid arguments
\* ------------------------------------------------------------------------

MaxExecCalls == 2

\* a caller invokes OrderExecutor.execute_limit_order
ExecutorCall(token_id, market_id, side, size, price) ==
    /\ Len(calls) < MaxExecCalls
    /\ LET o == [token_id |-> token_id, market_id |-> market_id,
                 market_name |-> market_id, side |-> side, size |-> size,
                 price |-> price]
           r == ExecuteLimitOrder(paper, paper_file, o, now)
       IN  /\ paper' = r.acct
           /\ paper_file' = r.file
           /\ calls' = Append(calls,
                 [ledger |-> "executor", token_id |-> token_id,
                  market |-> market_id, side |-> side, size |-> size,
                  price |-> price, ok |-> r.result.success,
                  error |-> r.result.error, status |-> "",
                  realized_pnl |-> RZero, crashed |-> FALSE,
                  before |-> [paper |-> paper, tracker |-> tracker,
                              paper_file |-> paper_file, tracker_file |-> tracker_file],
                  after |-> [paper |-> r.acct, tracker |-> tracker,
                             paper_file |-> r.file, tracker_file |-> tracker_file]])
    /\ now' = now + 1
    /\ UNCHANGED <<tracker, tracker_file>>
    /\ UNCHANGED riskVars
    /\ UNCHANGED pipeVars

NextExecutor ==
    \E token_id \in {"", "T1"}, market_id \in {"", "M1"}, side \in CallSides,
       size \in {RZero, RInt(5)},
       price \in {RZero, Rat(2, 5), RInt(1), Rat(3, 2)} :
          ExecutorCall(token_id, market_id, side, size, price)

SpecExecutor == InitLedger /\ [][NextExecutor]_vars

\* ------------------------------------------------------------------------
\* The position tracker under every retention limit max_closed from 0
\* ------------------------------------------------------------------------

InitRetention ==
    /\ RiskIdle
    /\ PipeIdle
    /\ now = 0
    /\ paper = PaperInit
    /\ paper_file = NoFile
    /\ \E n \in 0..MaxClosed : tracker = [TrackerInit EXCEPT !.max_closed = n]
    /\ tracker_file = NoFile
    /\ calls = <<>>

NextRetention ==
    \E m \in Markets, side \in CallSides, size \in OrderSizes, price \in OrderPrices :
       TrackerCall(m, side, size, price)

SpecRetention == InitRetention /\ [][NextRetention]_vars

\* ------------------------------------------------------------------------
\* The ledgers when the process stops during a write of _save_data
\* ------------------------------------------------------------------------

\* The file after open(data_file, 'w'), which truncates it, and the file
\* while json.dump is writing the document through the handle.
TruncatedFile == [exists |-> TRUE, content |-> "empty"]
PartialFile == [exists |-> TRUE, content |-> "partial"]
InterruptedFiles == {TruncatedFile, PartialFile}

\* the process is running: no call was cut short
Alive == \A i \in 1..Len(calls) : ~calls[i].crashed

\* place_order runs up to its _save_data, and the process stops in it after
\* open() and before the handle is closed
PaperCallCrash(m, side, size, price, f) ==
    /\ Len(calls) < MaxOps
    /\ Alive
    /\ OnlyLedger("paper")
    /\ LET r == PlaceOrder(paper, paper_file, m, MarketName(m), side, size, price, now)
       IN  /\ r.result.success
           /\ paper' = r.acct
           /\ paper_file' = f
           /\ calls' = Append(calls,
                 [ledger |-> "paper", market |-> m, side |-> side, size |-> size,
                  price |-> price, ok |-> FALSE, status |-> "",
                  realized_pnl |-> RZero, crashed |-> TRUE,
                  before |-> [paper |-> paper, tracker |-> tracker,
                              paper_file |-> paper_file, tracker_file |-> tracker_file],
                  after |-> [paper |-> r.acct, tracker |-> tracker,
                             paper_file |-> r.file, tracker_file |-> tracker_file]])
    /\ now' = now + 1
    /\ UNCHANGED <<tracker, tracker_file>>
    /\ UNCHANGED riskVars
    /\ UNCHANGED pipeVars

\* record_trade runs up to its _save_data, and the process stops in it after
\* open() and before the handle is closed
TrackerCallCrash(m, side, size, price, f) ==
    /\ Len(calls) < MaxOps
    /\ Alive
    /\ OnlyLedger("tracker")
    /\ LET r == RecordTrade(tracker, tracker_file, m, MarketName(m), side, size, price, now)
       IN  /\ r.status \in {"opened", "increased", "reduced", "closed"}
           /\ tracker' = r.tr
           /\ tracker_file' = f
           /\ calls' = Append(calls,
                 [ledger |-> "tracker", market |-> m, side |-> side, size |-> size,
                  price |-> price, ok |-> FALSE, status |-> r.status,
                  realized_pnl |-> r.realized_pnl, crashed |-> TRUE,
                  before |-> [paper |-> paper, tracker |-> tracker,
                              paper_file |-> paper_file, tracker_file |-> tracker_file],
                  after |-> [paper |-> paper, tracker |-> r.tr,
                             paper_file |-> paper_file, tracker_file |-> r.file]])
    /\ now' = now + 1
    /\ UNCHANGED <<paper, paper_file>>
    /\ UNCHANGED riskVars
    /\ UNCHANGED pipeVars

NextSave ==
    \/ Alive /\ NextLedger
    \/ \E m \in Markets, side \in CallSides, size \in OrderSizes, price \in OrderPrices,
          f \in InterruptedFiles : PaperCallCrash(m, side, size, price, f)
    \/ \E m \in Markets, side \in CallSides, size \in OrderSizes, price \in OrderPrices,
          f \in InterruptedFiles : TrackerCallCrash(m, side, size, price, f)

SpecSave == InitLedger /\ [][NextSave]_vars

\* ------------------------------------------------------------------------
\* The risk specification: any limits, any sequence of RiskManager calls
\* ------------------------------------------------------------------------

\* number of RiskManager calls explored, and the last day reached
MaxRiskOps == 3
MaxDay == 1

RiskMaxBets == {RInt(3), RInt(100)}
RiskMinBalances == {RZero, RInt(4)}
RiskLossLimits == {RZero, RInt(1)}
RiskTradeCaps == {0, 1}
RiskBalances == {RInt(3), RInt(6), RInt(10)}
RiskPnls == {RInt(-2), RInt(1)}

InitRisk ==
    /\ LedgerIdle
    /\ PipeIdle
    /\ now = 0
    /\ today = 0
    /\ \E mb \in RiskMaxBets, th \in RiskMinBalances,
          ll \in RiskLossLimits, cap \in RiskTradeCaps :
          risk = RiskInit(mb, th, ll, cap, 0)
    /\ risk_last = NoRiskCall
    /\ risk_ops = 0

\* a caller invokes RiskManager.check_pre_trade
RiskCheckCall(size, price, balance) ==
    /\ risk_ops < MaxRiskOps
    /\ LET c == CheckPreTrade(risk, size, price, balance, today)
       IN  /\ risk' = c.risk
           /\ risk_last' = [op |-> "check_pre_trade", size |-> size, price |-> price,
                            balance |-> balance, before |-> risk, date |-> today,
                            allowed |-> c.allowed, reason |-> c.reason]
    /\ risk_ops' = risk_ops + 1
    /\ UNCHANGED <<now, today>>
    /\ UNCHANGED ledgerVars
    /\ UNCHANGED pipeVars

\* a caller invokes RiskManager.record_trade, with or without a 'pnl' entry
RiskRecordCall(has_pnl, pnl) ==
    /\ risk_ops < MaxRiskOps
    /\ risk' = RiskRecordTrade(risk, [has_pnl |-> has_pnl, pnl |-> pnl], today)
    /\ risk_last' = [NoRiskCall EXCEPT !.op = "record_trade", !.before = risk,
                                       !.date = today]
    /\ risk_ops' = risk_ops + 1
    /\ UNCHANGED <<now, today>>
    /\ UNCHANGED ledgerVars
    /\ UNCHANGED pipeVars

\* activate_emergency_stop / deactivate_emergency_stop
RiskEmergencyCall(on) ==
    /\ risk_ops < MaxRiskOps
    /\ risk.emergency_stop # on
    /\ risk' = IF on THEN ActivateEmergencyStop(risk) ELSE DeactivateEmergencyStop(risk)
    /\ risk_last' = [NoRiskCall EXCEPT !.op = "emergency_stop", !.before = risk,
                                       !.date = today]
    /\ risk_ops' = risk_ops + 1
    /\ UNCHANGED <<now, today>>
    /\ UNCHANGED ledgerVars
    /\ UNCHANGED pipeVars

\* a caller invokes RiskManager.get_daily_stats; what it returns is read
\* from the state the reset leaves
RiskStatsCall ==
    /\ risk_ops < MaxRiskOps
    /\ risk' = ResetDailyStats(risk, today)
    /\ risk_last' = [NoRiskCall EXCEPT !.op = "get_daily_stats", !.before = risk,
                                       !.date = today]
    /\ risk_ops' = risk_ops + 1
    /\ UNCHANGED <<now, today>>
    /\ UNCHANGED ledgerVars
    /\ UNCHANGED pipeVars

\* midnight passes
DayAdvance ==
    /\ today < MaxDay
    /\ today' = today + 1
    /\ UNCHANGED <<now, risk, risk_last, risk_ops>>
    /\ UNCHANGED ledgerVars
    /\ UNCHANGED pipeVars

NextRisk ==
    \/ \E size \in OrderSizes, price \in OrderPrices, balance \in RiskBalances :
          RiskCheckCall(size, price, balance)
    \/ \E pnl \in RiskPnls : RiskRecordCall(TRUE, pnl)
    \/ RiskRecordCall(FALSE, RZero)
    \/ \E on \in BOOLEAN : RiskEmergencyCall(on)
    \/ RiskStatsCall
    \/ DayAdvance

SpecRisk == InitRisk /\ [][NextRisk]_vars

\* ------------------------------------------------------------------------
\* The pipeline specification: run(), stop() and the three tasks
\*
\* asyncio runs the tasks one at a time; a task gives way only where it
\* awaits.  An action is the code a task runs from one await to the next.
\* The consumer's loop is cut at its top as well, although it does not await
\* there when the queue holds an item: the model allows the other tasks to
\* run between two items, which the program does not.
\* ------------------------------------------------------------------------

\* the capacity of the event queue (queue_max), the number of items the feed
\* serves in one behaviour, the failed polls in a row that are explored, and
\* the last reading of the clock (seconds)
QueueMax == 2
MaxFetched == 3
MaxFailures == 1
MaxNow == 5
\* the clock when the program starts, and the latency bound max_delay (seconds)
StartNow == 3
MaxDelay == 1
\* min_balance_threshold of the pipeline's risk manager
PipeMinBalance == 5

\* A feed item.  shape tells what the consumer's conversions make of it:
\* "ok", each field has the type the code expects; "bad_size", float()
\* rejects the size (a text that is not a number); "bad_wallet", proxyWallet
\* is not a string (a number), so that .strip() raises in the handler.
Item(tx, wallet, side, size, price, ts_kind, ts) ==
    [tx |-> tx, wallet |-> wallet, market |-> "M1", asset |-> "T1",
     side |-> side, size |-> size, price |-> price,
     ts_kind |-> ts_kind, ts |-> ts, title |-> "", shape |-> "ok"]

\* the events of the target wallet: a buy and a sell with transaction hashes
\* and second-valued timestamps, and a buy without a hash whose timestamp is
\* in milliseconds
FeedItems ==
    {Item("h1", "0xABC", "BUY", RInt(5), Rat(2, 5), "int", 2),
     Item("h2", "0xabc", "SELL", RInt(5), Rat(7, 10), "int", 3),
     Item("", "0xabc", "BUY", RInt(5), Rat(2, 5), "int", 3000)}

\* sequences over S of length at most n
RECURSIVE SeqsUpTo(_, _)
SeqsUpTo(S, n) ==
    IF n = 0 THEN {<<>>}
    ELSE LET shorter == SeqsUpTo(S, n - 1)
         IN  shorter \cup {Append(p, x) : p \in {r \in shorter : Len(r) = n - 1}, x \in S}

Init ==
    /\ LedgerIdle
    /\ now = StartNow
    /\ today = 0
    /\ risk = RiskInit(RInt(DefaultMaxBet), RInt(PipeMinBalance), RZero, 0, 0)
    /\ risk_last = NoRiskCall
    /\ risk_ops = 0
    /\ \E d \in {0, MaxDelay} :
          config = [DefaultConfig EXCEPT !.max_delay = d, !.queue_max = QueueMax]
    /\ feed = FeedItems
    /\ running = FALSE
    /\ run_pc = "idle"
    /\ task = [t \in Tasks |-> "none"]
    /\ cancel_req = {}
    /\ last_ts = NoCursor
    /\ backoff = BackoffStart
    /\ fails = 0
    /\ q = <<>>
    /\ processed_trades = {}
    /\ inflight = NoInflight
    /\ fetched = 0
    /\ enq_count = 0
    /\ page = NoPage
    /\ log = <<>>
    /\ orders = <<>>
    /\ stop_called = FALSE

\* ---- run() and stop() ----

\* run() up to its await on asyncio.wait: the three tasks are created
RunStart ==
    /\ run_pc = "idle"
    /\ IF config.target_wallet = ""
       THEN /\ running' = FALSE
            /\ run_pc' = "returned"
            /\ UNCHANGED task
       ELSE /\ running' = TRUE
            /\ run_pc' = "wait"
            /\ task' = [t \in Tasks |-> "created"]
    /\ UNCHANGED <<now, config, feed, cancel_req, last_ts, backoff, fails, q,
                   processed_trades, inflight, fetched, enq_count, page, log,
                   orders, stop_called>>
    /\ UNCHANGED ledgerVars
    /\ UNCHANGED riskVars

\* stop(): the signal handler clears the flag
Stop ==
    /\ run_pc = "wait"
    /\ running
    /\ running' = FALSE
    /\ stop_called' = TRUE
    /\ UNCHANGED <<now, config, feed, run_pc, task, cancel_req, last_ts, backoff,
                   fails, q, processed_trades, inflight, fetched, enq_count,
                   page, log, orders>>
    /\ UNCHANGED ledgerVars
    /\ UNCHANGED riskVars

\* run()'s finally block cancels nothing
ToCancelNone == {}

\* the tasks run()'s finally block cancels: those that are not done
ToCancel == {t \in Tasks : task[t] \notin Final}

\* asyncio.wait(..., FIRST_EXCEPTION) returns: a task has raised, or all
\* three have finished; run() enters its finally block and cancels the rest
RunWaitDone ==
    /\ run_pc = "wait"
    /\ \/ \E t \in Tasks : task[t] = "failed"
       \/ \A t \in Tasks : task[t] \in Final
    /\ running' = FALSE
    /\ cancel_req' = ToCancel
    /\ run_pc' = "gather"
    /\ UNCHANGED <<now, config, feed, task, last_ts, backoff, fails, q,
                   processed_trades, inflight, fetched, enq_count, page, log,
                   orders, stop_called>>
    /\ UNCHANGED ledgerVars
    /\ UNCHANGED riskVars

\* a cancelled task receives CancelledError where it is suspended
TaskCancelled(t) ==
    /\ t \in cancel_req
    /\ task[t] \notin Final
    /\ task' = [task EXCEPT ![t] = "cancelled"]
    /\ cancel_req' = cancel_req \ {t}
    /\ UNCHANGED <<now, config, feed, running, run_pc, last_ts, backoff, fails, q,
                   processed_trades, inflight, fetched, enq_count, page, log,
                   orders, stop_called>>
    /\ UNCHANGED ledgerVars
    /\ UNCHANGED riskVars

\* asyncio.gather returns: run() returns
RunGatherDone ==
    /\ run_pc = "gather"
    /\ \A t \in Tasks : task[t] \in Final
    /\ run_pc' = "returned"
    /\ UNCHANGED <<now, config, feed, running, task, cancel_req, last_ts, backoff,
                   fails, q, processed_trades, inflight, fetched, enq_count,
                   page, log, orders, stop_called>>
    /\ UNCHANGED ledgerVars
    /\ UNCHANGED riskVars

\* ---- the poller: _poll_loop and _bootstrap_cursor ----

PollerFrame ==
    /\ UNCHANGED <<now, config, feed, running, run_pc, cancel_req,
                   processed_trades, inflight, log, orders, stop_called>>
    /\ UNCHANGED ledgerVars
    /\ UNCHANGED riskVars

\* the top of the poller's while loop: leave, or send the next request
PollerLoopTop == IF running THEN "fetch" ELSE "done"

\* the task starts and sends the bootstrap request
PollStart ==
    /\ task["poller"] = "created"
    /\ "poller" \notin cancel_req
    /\ task' = [task EXCEPT !["poller"] = "bootstrap"]
    /\ UNCHANGED <<last_ts, backoff, fails, q, fetched, enq_count, page>>
    /\ PollerFrame

\* the bootstrap response: the newest event of the wallet, or none
PollBootstrapOk(data) ==
    /\ task["poller"] = "bootstrap"
    /\ "poller" \notin cancel_req
    /\ Len(data) <= 1
    /\ \A i \in 1..Len(data) : data[i].ts_kind # "bad"
    /\ last_ts' = IF data # <<>> THEN PollerTs(data[1]) ELSE 0
    /\ page' = [kind |-> "bootstrap", max_ts |-> MaxTs(data)]
    /\ task' = [task EXCEPT !["poller"] = PollerLoopTop]
    /\ UNCHANGED <<backoff, fails, q, fetched, enq_count>>
    /\ PollerFrame

\* the bootstrap request fails: the exception leaves _poll_loop
PollBootstrapFail ==
    /\ task["poller"] = "bootstrap"
    /\ "poller" \notin cancel_req
    /\ page' = [kind |-> "bootstrap_error", max_ts |-> NoCursor]
    /\ task' = [task EXCEPT !["poller"] = "failed"]
    /\ UNCHANGED <<last_ts, backoff, fails, q, fetched, enq_count>>
    /\ PollerFrame

\* a page arrives: the cursor is advanced over it, its items are enqueued;
\* there is no await between the two loops, and none in the enqueue loop as
\* long as no put finds the queue full
PollFetchOk(items) ==
    /\ task["poller"] = "fetch"
    /\ "poller" \notin cancel_req
    /\ fetched + Len(items) <= MaxFetched
    /\ \A i \in 1..Len(items) : items[i].ts_kind # "bad"
    /\ ~EnqueueWaits(q, items, config.queue_max)
    /\ last_ts' = AdvanceCursor(last_ts, items)
    /\ q' = EnqueueAll(q, items, enq_count + 1, config.queue_max)
    /\ enq_count' = enq_count + Len(items)
    /\ fetched' = fetched + Len(items)
    /\ backoff' = BackoffStart
    /\ fails' = 0
    /\ page' = [kind |-> "ok", max_ts |-> MaxTs(items)]
    /\ task' = [task EXCEPT !["poller"] = "sleep"]
    /\ PollerFrame

\* the request fails, or an item of the page has a timestamp int() rejects:
\* the cursor loop stops there, nothing is enqueued
PollFetchErrorWithin(items, max_fails) ==
    /\ task["poller"] = "fetch"
    /\ "poller" \notin cancel_req
    /\ fails < max_fails
    /\ fetched + Len(items) <= MaxFetched
    /\ items = <<>> \/ \E i \in 1..Len(items) : items[i].ts_kind = "bad"
    /\ last_ts' = AdvanceCursor(last_ts, GoodPrefix(items))
    /\ fetched' = fetched + Len(items)
    /\ fails' = fails + 1
    /\ page' = [kind |-> "error", max_ts |-> MaxTs(GoodPrefix(items))]
    /\ task' = [task EXCEPT !["poller"] = "backoff"]
    /\ UNCHANGED <<backoff, q, enq_count>>
    /\ PollerFrame

\* the same, for at most MaxFailures failures in a row
PollFetchError(items) == PollFetchErrorWithin(items, MaxFailures)

\* asyncio.sleep returns: after a failure the delay is doubled; then the
\* loop's top
PollSleepDone ==
    /\ task["poller"] \in {"sleep", "backoff"}
    /\ "poller" \notin cancel_req
    /\ backoff' = IF task["poller"] = "backoff" THEN NextBackoff(backoff) ELSE backoff
    /\ task' = [task EXCEPT !["poller"] = PollerLoopTop]
    /\ UNCHANGED <<last_ts, fails, q, fetched, enq_count, page>>
    /\ PollerFrame

\* ---- the consumer: _consume_loop and _handle_user_trade ----

\* the risk check's answer is not looked at
BlockedNever(risk_check) == FALSE

\* not risk_check.get("allowed", False)
Blocked(risk_check) == ~risk_check.allowed

\* the exception leaves the loop: the task ends with it
ConsumerAfterErrorFailed == "failed"

\* where the consumer stands after an exception raised while it handled an
\* event: the handler, or else the loop, catches it and logs it, and the loop
\* goes to its top
ConsumerAfterError == "top"

\* what is decided for one dequeued item, read at clock n, when the shrink
\* leaves the cache as kept; float(size) raises in _consume_loop after the
\* latency gate, wallet.strip() in _handle_user_trade after the key is added
Handle(it, n, kept) ==
    LET td == TradeData(it)
        trade_id == GenerateTradeId(td)
        side == Lower(td.side)
        balance == paper.balance
        size == ScaledSize(config, side, td.size, td.price, balance)
        check == CheckPreTrade(risk, size, td.price, balance, today)
        order == [token_id |-> td.token_id, side |-> side, size |-> size,
                  price |-> td.price, market_id |-> td.market,
                  market_name |-> td.market_name]
        base == [outcome |-> "", key |-> trade_id, processed |-> processed_trades,
                 checked |-> FALSE, check |-> check, order |-> NoOrder,
                 size |-> size, price |-> td.price,
                 evicted |-> {}]
    IN  IF PreDuplicate(it, processed_trades)
        THEN [base EXCEPT !.outcome = "duplicate"]
        ELSE IF IsStale(it, n, config.max_delay)
        THEN [base EXCEPT !.outcome = "stale"]
        ELSE IF it.shape = "bad_size"
        THEN [base EXCEPT !.outcome = "error"]
        ELSE IF AlreadyProcessed(trade_id, processed_trades)
        THEN [base EXCEPT !.outcome = "duplicate"]
        ELSE LET added == [base EXCEPT
                             !.processed = kept,
                             !.evicted = (processed_trades \cup {trade_id}) \ kept]
             IN  IF it.shape = "bad_wallet"
                 THEN [added EXCEPT !.outcome = "error"]
                 ELSE IF Lower(td.wallet) # Lower(config.target_wallet)
                 THEN [added EXCEPT !.outcome = "wallet"]
                 ELSE IF Blocked(check)
                 THEN [added EXCEPT !.outcome = "risk", !.checked = TRUE]
                 ELSE [added EXCEPT !.outcome = "submitted", !.checked = TRUE,
                                    !.order = order]

\* the consumer takes the next item: duplicate check, latency gate,
\* _handle_user_trade up to the await on the executor
ConsumeItem(n, kept) ==
    /\ \E h \in {Handle(Head(q).item, n, kept)} :
           /\ processed_trades' = h.processed
           /\ IF h.checked
              THEN /\ risk' = h.check.risk
                   /\ risk_ops' = risk_ops + 1
                   /\ risk_last' = [op |-> "check_pre_trade", size |-> h.size,
                                    price |-> h.price, balance |-> paper.balance,
                                    before |-> risk, date |-> today,
                                    allowed |-> h.check.allowed,
                                    reason |-> h.check.reason]
              ELSE UNCHANGED <<risk, risk_ops, risk_last>>
           /\ IF h.outcome = "submitted"
              THEN /\ inflight' = [state |-> "running", order |-> h.order,
                                   result |-> NoResult]
                   /\ orders' = Append(orders, [key |-> h.key, seq |-> Head(q).seq,
                                                order |-> h.order,
                                                date |-> h.check.risk.last_reset_date,
                                                result |-> "pending"])
                   /\ task' = [task EXCEPT !["consumer"] = "exec"]
              ELSE /\ UNCHANGED <<inflight, orders>>
                   /\ task' = [task EXCEPT !["consumer"] =
                                  IF h.outcome = "error" THEN ConsumerAfterError
                                  ELSE "top"]
           /\ log' = Append(log, [seq |-> Head(q).seq, item |-> Head(q).item,
                                  now |-> n, outcome |-> h.outcome, key |-> h.key,
                                  cache |-> processed_trades,
                                  evicted |-> h.evicted])
    /\ q' = Tail(q)
    /\ now' = n
    /\ UNCHANGED <<today, config, feed, running, run_pc, cancel_req, last_ts,
                   backoff, fails, fetched, enq_count, page, stop_called>>
    /\ UNCHANGED ledgerVars

\* the top of the consumer's loop with nothing to take: the task leaves, or
\* suspends in q.get()
ConsumeIdle ==
    /\ task["consumer"] \in {"created", "top"}
    /\ "consumer" \notin cancel_req
    /\ ~running \/ q = <<>>
    /\ task' = [task EXCEPT !["consumer"] = IF running THEN "get" ELSE "done"]
    /\ UNCHANGED <<now, config, feed, running, run_pc, cancel_req, last_ts, backoff,
                   fails, q, processed_trades, inflight, fetched, enq_count,
                   page, log, orders, stop_called>>
    /\ UNCHANGED ledgerVars
    /\ UNCHANGED riskVars

\* place_order part of the way through a successful call: the states of the
\* account between its first assignment and its last.  A buy has taken the
\* cost from the balance (line 70) and not yet touched the position; a sell
\* has added its PnL (103), or that and the proceeds (105), and not yet
\* reduced the position.
PaperTorn(acct, o) ==
    LET market_id == IF o.market_id # "" THEN o.market_id ELSE o.token_id
        cost == RMul(o.size, o.price)
    IN  IF ValidateOrder(o.token_id, o.side, o.size, o.price) # <<>> THEN {}
        ELSE IF o.side = "buy"
        THEN IF RGt(cost, acct.balance) THEN {}
             ELSE {[acct EXCEPT !.balance = RSub(@, cost)]}
        ELSE IF o.side = "sell"
        THEN IF market_id \notin DOMAIN acct.positions THEN {}
             ELSE IF RLt(acct.positions[market_id].size, o.size) THEN {}
             ELSE LET pnl == PaperSellPnl(o.size, o.price,
                                          acct.positions[market_id].avg_price)
                  IN  {[acct EXCEPT !.total_pnl = RAdd(@, pnl)],
                       [acct EXCEPT !.total_pnl = RAdd(@, pnl),
                                    !.balance = RAdd(@, cost)]}
        ELSE {}

\* the worker thread is switched out in the middle of place_order: the
\* account is left part of the way through the call
ExecuteBegin ==
    /\ inflight.state = "running"
    /\ \E a \in PaperTorn(paper, inflight.order) :
          /\ paper' = a
          /\ inflight' = [state |-> "partial", order |-> inflight.order,
                          result |-> NoResult, before |-> paper]
    /\ UNCHANGED <<now, paper_file, tracker, tracker_file, calls>>
    /\ UNCHANGED <<config, feed, running, run_pc, task, cancel_req, last_ts, backoff,
                   fails, q, processed_trades, fetched, enq_count, page, log,
                   orders, stop_called>>
    /\ UNCHANGED riskVars

\* the worker thread of asyncio.to_thread runs execute_limit_order, or the
\* rest of it
ExecuteOrder ==
    /\ inflight.state \in {"running", "partial"}
    /\ LET acct == IF inflight.state = "partial" THEN inflight.before ELSE paper
           r == ExecuteLimitOrder(acct, paper_file, inflight.order, now)
       IN  /\ paper' = r.acct
           /\ paper_file' = r.file
           /\ inflight' = [state |-> "done", order |-> inflight.order,
                           result |-> r.result]
    /\ UNCHANGED <<now, tracker, tracker_file, calls>>
    /\ UNCHANGED <<config, feed, running, run_pc, task, cancel_req, last_ts, backoff,
                   fails, q, processed_trades, fetched, enq_count, page, log,
                   orders, stop_called>>
    /\ UNCHANGED riskVars

\* the result is recorded whether it succeeded or not
SucceededAlways(result) == TRUE

\* no result is taken as a success
SucceededNever(result) == FALSE

\* result.get("success")
Succeeded(result) == result.success

\* the await on the executor returns: the rest of _handle_user_trade
ConsumeResult ==
    /\ task["consumer"] = "exec"
    /\ "consumer" \notin cancel_req
    /\ inflight.state = "done"
    /\ LET o == inflight.order
           res == inflight.result
       IN  IF Succeeded(res)
           THEN LET rec == RecordTrade(tracker, tracker_file, o.market_id,
                                       o.market_name, o.side, o.size, res.price, now)
                IN  /\ risk' = RiskRecordTrade(risk, [has_pnl |-> TRUE, pnl |-> res.pnl],
                                               today)
                    /\ risk_ops' = risk_ops + 1
                    /\ risk_last' = [NoRiskCall EXCEPT !.op = "record_trade",
                                                       !.before = risk, !.date = today]
                    /\ tracker' = rec.tr
                    /\ tracker_file' = rec.file
                    /\ calls' = Append(calls,
                          [ledger |-> "tracker", market |-> o.market_id,
                           side |-> o.side, size |-> o.size, price |-> res.price,
                           status |-> rec.status, realized_pnl |-> rec.realized_pnl])
           ELSE UNCHANGED <<risk, risk_ops, risk_last, tracker, tracker_file, calls>>
    /\ orders' = [orders EXCEPT ![Len(orders)].result =
                     IF inflight.result.success THEN "success" ELSE "failed"]
    /\ inflight' = NoInflight
    /\ task' = [task EXCEPT !["consumer"] = "top"]
    /\ UNCHANGED <<now, today, paper, paper_file>>
    /\ UNCHANGED <<config, feed, running, run_pc, cancel_req, last_ts, backoff,
                   fails, q, processed_trades, fetched, enq_count, page, log,
                   stop_called>>

\* ---- the status task: _status_loop ----

\* the task reports and sleeps, or leaves once running is false
StatusStep ==
    /\ task["status"] \in {"created", "sleep"}
    /\ "status" \notin cancel_req
    /\ task' = [task EXCEPT !["status"] = IF running THEN "sleep" ELSE "done"]
    /\ UNCHANGED <<now, config, feed, running, run_pc, cancel_req, last_ts, backoff,
                   fails, q, processed_trades, inflight, fetched, enq_count,
                   page, log, orders, stop_called>>
    /\ UNCHANGED ledgerVars
    /\ UNCHANGED riskVars

\* a mutant of ConsumerReady: the handler is not awaited, the loop goes on
\* while an order is with the executor
ConsumerReadyInExec ==
    \/ task["consumer"] \in {"created", "top"} /\ running
    \/ task["consumer"] \in {"get", "exec"}

\* the consumer is where it takes an item: at the top of its loop with running
\* set, or suspended in q.get(); not while it awaits _handle_user_trade
ConsumerReady ==
    \/ task["consumer"] \in {"created", "top"} /\ running
    \/ task["consumer"] = "get"

\* the consumer takes an item when it is at the top of its loop with running
\* set, or suspended in q.get(), and the queue holds one; the clock is read
\* and the cache shrunk in whatever way the set's order gives
ConsumeStep ==
    /\ ConsumerReady
    /\ "consumer" \notin cancel_req
    /\ q # <<>>
    /\ \E n \in now..MaxNow,
          kept \in ShrinkDedupeSet(processed_trades
                     \cup {GenerateTradeId(TradeData(Head(q).item))}) :
          ConsumeItem(n, kept)

\* the pages the feed can still serve
Pages == SeqsUpTo(feed, MaxFetched - fetched)

\* the poller's next step, whatever it is
PollerStep ==
    \/ PollStart
    \/ \E data \in Pages : PollBootstrapOk(data)
    \/ PollBootstrapFail
    \/ \E items \in Pages : PollFetchOk(items)
    \/ \E items \in Pages : PollFetchError(items)
    \/ PollSleepDone

\* run(), the poller, the consumer and the executor's worker thread
Next ==
    \/ RunStart
    \/ RunWaitDone
    \/ \E t \in Tasks : TaskCancelled(t)
    \/ RunGatherDone
    \/ PollerStep
    \/ ConsumeStep
    \/ ConsumeIdle
    \/ ExecuteOrder
    \/ ConsumeResult

\* The replication pipeline.  stop() and the status task are left to SpecLife:
\* they change running and the status task's position only, so they add no
\* value of the cursor, the queue, the cache, the ledgers or the risk state
\* that this specification does not reach.
Spec == Init /\ [][Next]_vars

\* ------------------------------------------------------------------------
\* The lifecycle specification: the pipeline with stop() and the status
\* task, on a feed of one event
\* ------------------------------------------------------------------------

InitLife ==
    /\ LedgerIdle
    /\ now = StartNow
    /\ today = 0
    /\ risk = RiskInit(RInt(DefaultMaxBet), RInt(PipeMinBalance), RZero, 0, 0)
    /\ risk_last = NoRiskCall
    /\ risk_ops = 0
    /\ config = [DefaultConfig EXCEPT !.max_delay = MaxDelay, !.queue_max = QueueMax]
    /\ feed = {Item("h1", "0xABC", "BUY", RInt(5), Rat(2, 5), "int", 2)}
    /\ running = FALSE
    /\ run_pc = "idle"
    /\ task = [t \in Tasks |-> "none"]
    /\ cancel_req = {}
    /\ last_ts = NoCursor
    /\ backoff = BackoffStart
    /\ fails = 0
    /\ q = <<>>
    /\ processed_trades = {}
    /\ inflight = NoInflight
    /\ fetched = 0
    /\ enq_count = 0
    /\ page = NoPage
    /\ log = <<>>
    /\ orders = <<>>
    /\ stop_called = FALSE

NextLife ==
    \/ Next
    \/ Stop
    \/ StatusStep

SpecLife == InitLife /\ [][NextLife]_vars

\* The event loop runs every task that is ready: run() itself, a cancelled
\* task, the poller (a sleep ends; a request ends with a response or an
\* error, the session having a total timeout), the consumer and the status
\* task; the worker thread runs.  stop() is a signal: nothing makes it happen.
FairLife ==
    /\ SpecLife
    /\ WF_vars(RunStart \/ RunWaitDone \/ RunGatherDone)
    /\ WF_vars(\E t \in Tasks : TaskCancelled(t))
    /\ WF_vars(PollerStep)
    /\ WF_vars(ConsumeStep \/ ConsumeIdle \/ ConsumeResult)
    /\ WF_vars(ExecuteOrder)
    /\ WF_vars(StatusStep)

\* ------------------------------------------------------------------------
\* The pipeline on one of two further feeds
\* ------------------------------------------------------------------------

\* Either two buys of the target wallet in one market with one timestamp and
\* no hash, which differ in size and token, and a buy of another wallet; or
\* a buy of the target wallet and two sells of a part of it at a profit; or
\* three buys of the target wallet that together cost more than the account
\* can spend above min_balance_threshold.
InitTwin ==
    /\ LedgerIdle
    /\ now = StartNow
    /\ today = 0
    /\ risk = RiskInit(RInt(DefaultMaxBet), RInt(PipeMinBalance), RZero, 0, 0)
    /\ risk_last = NoRiskCall
    /\ risk_ops = 0
    /\ config = [DefaultConfig EXCEPT !.max_delay = MaxDelay, !.queue_max = QueueMax]
    /\ feed \in {{Item("", "0xabc", "BUY", RInt(5), Rat(2, 5), "int", 3),
                  [Item("", "0xabc", "BUY", RInt(2), Rat(2, 5), "int", 3)
                     EXCEPT !.asset = "T2"],
                  Item("h5", "0xdef", "BUY", RInt(5), Rat(2, 5), "int", 2)},
                 {Item("h1", "0xabc", "BUY", RInt(5), Rat(2, 5), "int", 2),
                  Item("h6", "0xabc", "SELL", RInt(2), Rat(7, 10), "int", 3),
                  Item("h7", "0xabc", "SELL", RInt(2), Rat(7, 10), "int", 3)},
                 {Item("h10", "0xabc", "BUY", RInt(10), Rat(2, 5), "int", 2),
                  Item("h11", "0xabc", "BUY", RInt(5), Rat(2, 5), "int", 3),
                  Item("h12", "0xabc", "BUY", RInt(10), Rat(7, 10), "int", 3)}}
    /\ running = FALSE
    /\ run_pc = "idle"
    /\ task = [t \in Tasks |-> "none"]
    /\ cancel_req = {}
    /\ last_ts = NoCursor
    /\ backoff = BackoffStart
    /\ fails = 0
    /\ q = <<>>
    /\ processed_trades = {}
    /\ inflight = NoInflight
    /\ fetched = 0
    /\ enq_count = 0
    /\ page = NoPage
    /\ log = <<>>
    /\ orders = <<>>
    /\ stop_called = FALSE

SpecTwin == InitTwin /\ [][Next]_vars

\* ------------------------------------------------------------------------
\* The pipeline with its worker thread.  asyncio.to_thread runs
\* execute_limit_order in a thread of its own: the event loop's thread runs
\* the poller and the status task meanwhile, and the interpreter may switch
\* between the two threads between any two bytecodes of place_order.
\* ------------------------------------------------------------------------

NextRace ==
    \/ RunStart
    \/ PollStart
    \/ \E data \in Pages : PollBootstrapOk(data)
    \/ \E items \in Pages : PollFetchOk(items)
    \/ PollSleepDone
    \/ ConsumeStep
    \/ ConsumeIdle
    \/ ExecuteBegin
    \/ ExecuteOrder
    \/ ConsumeResult
    \/ StatusStep

SpecRace == InitTwin /\ [][NextRace]_vars

\* ------------------------------------------------------------------------
\* The pipeline with a daily trade cap, across midnight
\* ------------------------------------------------------------------------

\* max_daily_trades of the pipeline's risk manager
DailyCap == 1

\* two buys of the target wallet, each within every other limit
InitDaily ==
    /\ LedgerIdle
    /\ now = StartNow
    /\ today = 0
    /\ risk = RiskInit(RInt(DefaultMaxBet), RZero, RZero, DailyCap, 0)
    /\ risk_last = NoRiskCall
    /\ risk_ops = 0
    /\ config = [DefaultConfig EXCEPT !.max_delay = 0, !.queue_max = QueueMax]
    /\ feed = {Item("h1", "0xabc", "BUY", RInt(5), Rat(2, 5), "int", 2),
               Item("h8", "0xabc", "BUY", RInt(2), Rat(2, 5), "int", 3)}
    /\ running = FALSE
    /\ run_pc = "idle"
    /\ task = [t \in Tasks |-> "none"]
    /\ cancel_req = {}
    /\ last_ts = NoCursor
    /\ backoff = BackoffStart
    /\ fails = 0
    /\ q = <<>>
    /\ processed_trades = {}
    /\ inflight = NoInflight
    /\ fetched = 0
    /\ enq_count = 0
    /\ page = NoPage
    /\ log = <<>>
    /\ orders = <<>>
    /\ stop_called = FALSE

\* the pipeline, and midnight passing at any moment
NextDaily ==
    \/ Next
    \/ DayAdvance

SpecDaily == InitDaily /\ [][NextDaily]_vars

\* ------------------------------------------------------------------------
\* The poller alone on a Data API that honours the request: events not older
\* than start, oldest first, at most limit of them
\* ------------------------------------------------------------------------

BatchLimit == 2

\* the wallet's events: one, and then two that share a timestamp
FeedEvents ==
    {Item("h1", "0xabc", "BUY", RInt(5), Rat(2, 5), "int", 2),
     Item("h2", "0xabc", "BUY", RInt(2), Rat(2, 5), "int", 3),
     Item("h3", "0xabc", "BUY", RInt(5), Rat(7, 10), "int", 3)}

\* the request asks for the events after the cursor
StartTsInclusive(cursor) == IF cursor # NoCursor THEN cursor ELSE 0

\* start_ts = (self._last_ts + 1) if self._last_ts is not None else 0
StartTs(cursor) == IF cursor # NoCursor THEN cursor + 1 ELSE 0

\* the responses to a request with start, limit, sortBy TIMESTAMP ASC over the
\* events: the first limit of the events not older than start, oldest first,
\* events of one timestamp in any order
FeedAnswer(events, start, limit) ==
    LET matching == {e \in events : PollerTs(e) >= start}
        n == Min(limit, Cardinality(matching))
    IN  {p \in SeqsUpTo(matching, n) :
            /\ Len(p) = n
            /\ \A i, j \in 1..n : i < j => p[i] # p[j] /\ PollerTs(p[i]) <= PollerTs(p[j])
            /\ \A e \in matching :
                  (\A i \in 1..n : p[i] # e) => \A i \in 1..n : PollerTs(p[i]) <= PollerTs(e)}

InitFeed ==
    /\ LedgerIdle
    /\ now = StartNow
    /\ today = 0
    /\ risk = RiskInit(RInt(DefaultMaxBet), RInt(PipeMinBalance), RZero, 0, 0)
    /\ risk_last = NoRiskCall
    /\ risk_ops = 0
    /\ \E qm \in {0, QueueMax}, limit \in 1..BatchLimit :
          config = [DefaultConfig EXCEPT !.queue_max = qm, !.batch_limit = limit]
    /\ feed \in SUBSET FeedEvents
    /\ running = FALSE
    /\ run_pc = "idle"
    /\ task = [t \in Tasks |-> "none"]
    /\ cancel_req = {}
    /\ last_ts = NoCursor
    /\ backoff = BackoffStart
    /\ fails = 0
    /\ q = <<>>
    /\ processed_trades = {}
    /\ inflight = NoInflight
    /\ fetched = 0
    /\ enq_count = 0
    /\ page = NoPage
    /\ log = <<>>
    /\ orders = <<>>
    /\ stop_called = FALSE

\* the bootstrap request is answered with the newest event there is at that
\* time, if any; the events after it arrive before the first poll
NextFeed ==
    \/ RunStart
    \/ PollStart
    \/ \E data \in {<<>>} \cup {<<e>> : e \in feed} : PollBootstrapOk(data)
    \/ \E items \in FeedAnswer(feed, StartTs(last_ts), config.batch_limit) :
          PollFetchOk(items)
    \/ PollFetchError(<<>>)
    \/ PollSleepDone

SpecFeed == InitFeed /\ [][NextFeed]_vars

\* the feed answers and the poller's sleeps end
FairFeed ==
    /\ SpecFeed
    /\ WF_vars(RunStart)
    /\ WF_vars(PollStart \/ PollSleepDone
                 \/ (\E data \in {<<>>} \cup {<<e>> : e \in feed} : PollBootstrapOk(data))
                 \/ (\E items \in FeedAnswer(feed, StartTs(last_ts), config.batch_limit) :
                        PollFetchOk(items)))

\* ------------------------------------------------------------------------
\* The poller alone, with requests that fail many times in a row
\* ------------------------------------------------------------------------

MaxConsecutive == 7

NextPoller ==
    \/ RunStart
    \/ PollStart
    \/ \E data \in Pages : PollBootstrapOk(data)
    \/ \E items \in Pages : PollFetchOk(items)
    \/ PollFetchErrorWithin(<<>>, MaxConsecutive)
    \/ PollSleepDone

SpecPoller == Init /\ [][NextPoller]_vars

\* ------------------------------------------------------------------------
\* The pipeline on a feed with irregular events, and with the risk manager's
\* limits set both ways
\* ------------------------------------------------------------------------

\* max_bet_size small enough to reject the larger of the feed's events
EdgeMaxBet == 1

\* a regular buy, a buy whose timestamp int() rejects, and a smaller buy
\* without a conditionId (the executor then files it under its token id);
\* the other feed InitEdge draws from has an event whose size float()
\* rejects, an event whose proxyWallet is a number, and a regular buy
EdgeItems ==
    {Item("h1", "0xabc", "BUY", RInt(5), Rat(2, 5), "int", 2),
     Item("h3", "0xabc", "BUY", RInt(5), Rat(2, 5), "bad", 0),
     [Item("h4", "0xabc", "BUY", RInt(2), Rat(2, 5), "int", 3) EXCEPT !.market = ""]}

InitEdge ==
    /\ LedgerIdle
    /\ now = StartNow
    /\ today = 0
    /\ \E mb \in {EdgeMaxBet, DefaultMaxBet}, es \in BOOLEAN :
          risk = [RiskInit(RInt(mb), RInt(PipeMinBalance), RZero, 0, 0)
                    EXCEPT !.emergency_stop = es]
    /\ risk_last = NoRiskCall
    /\ risk_ops = 0
    /\ config = [DefaultConfig EXCEPT !.max_delay = 0, !.queue_max = QueueMax]
    /\ feed \in {EdgeItems,
                 {[Item("h13", "0xabc", "BUY", RInt(5), Rat(2, 5), "int", 2)
                     EXCEPT !.shape = "bad_size"],
                  [Item("h14", "0xabc", "BUY", RInt(5), Rat(2, 5), "int", 3)
                     EXCEPT !.shape = "bad_wallet"],
                  Item("h1", "0xabc", "BUY", RInt(2), Rat(2, 5), "int", 3)}}
    /\ running = FALSE
    /\ run_pc = "idle"
    /\ task = [t \in Tasks |-> "none"]
    /\ cancel_req = {}
    /\ last_ts = NoCursor
    /\ backoff = BackoffStart
    /\ fails = 0
    /\ q = <<>>
    /\ processed_trades = {}
    /\ inflight = NoInflight
    /\ fetched = 0
    /\ enq_count = 0
    /\ page = NoPage
    /\ log = <<>>
    /\ orders = <<>>
    /\ stop_called = FALSE

SpecEdge == InitEdge /\ [][Next]_vars

\* ========================================================================
\* Properties
\* ========================================================================

\* ---- helpers over the history of ledger calls ----

IsBuy(c) == Lower(c.side) = "buy"
IsSell(c) == Lower(c.side) = "sell"
PaperCalls == {i \in 1..Len(calls) : calls[i].ledger = "paper"}
TrackerCalls == {i \in 1..Len(calls) : calls[i].ledger = "tracker"}

\* the sum of f[i] over the indices in S
RECURSIVE RSum(_, _)
RSum(f, S) ==
    IF S = {} THEN RZero
    ELSE LET i == CHOOSE j \in S : TRUE IN RAdd(f[i], RSum(f, S \ {i}))

\* ---- helpers over the pipeline's history ----

\* this step is the consumer taking an item off the queue
Dequeues == Len(log') = Len(log) + 1

\* this step leaves the risk state, the submitted orders, the executor and
\* both ledgers as they are
NothingDone ==
    /\ risk' = risk
    /\ risk_ops' = risk_ops
    /\ orders' = orders
    /\ inflight' = inflight
    /\ UNCHANGED ledgerVars

\* the orders submitted for transaction hash h, as indices into orders
OrdersOf(h) == {i \in 1..Len(orders) : orders[i].key = <<h>>}

Hashes == {it.tx : it \in FeedItems} \ {""}

\* ---- C1 ----

\* C1 as stated: for every transaction hash at most one order is submitted,
\* however many copies of the event reach the consumer.
C1_AtMostOneOrderPerHash ==
    \A h \in Hashes : Cardinality(OrdersOf(h)) <= 1

\* C1, amended: an item whose transaction hash is in the dedup cache when it
\* is dequeued is dropped without a risk check, an order or a ledger change,
\* and the cache is left as it is; and two orders are submitted for one hash
\* only when a shrink of the cache evicted the hash between them.
C1_CachedHashDropped ==
    /\ [][(Dequeues /\ Head(q).item.tx # ""
             /\ <<Head(q).item.tx>> \in processed_trades)
            => (NothingDone /\ processed_trades' = processed_trades)]_vars
    /\ [](\A h \in Hashes : \A i, j \in OrdersOf(h) :
            i < j =>
               \E k \in 1..Len(log) :
                  /\ orders[i].seq <= log[k].seq
                  /\ log[k].seq < orders[j].seq
                  /\ <<h>> \in log[k].evicted)

\* reached: a second copy of an event whose hash is still cached has been
\* dropped, after the order for the first copy
C1_Witness ==
    \E k \in 1..Len(log) :
       /\ log[k].item.tx # ""
       /\ <<log[k].item.tx>> \in log[k].cache
       /\ \E i \in OrdersOf(log[k].item.tx) : orders[i].seq < log[k].seq

\* ---- C2 ----

\* C2: once bootstrapped the cursor never decreases, and a successful poll
\* leaves it at the larger of its value before the poll and the largest
\* timestamp of the page, whatever the order of the page's items.
C2_CursorMonotone ==
    [][/\ last_ts # NoCursor => last_ts' >= last_ts
       /\ (task["poller"] = "fetch" /\ task'["poller"] = "sleep")
            => /\ page'.kind = "ok"
               /\ last_ts' = IF page'.max_ts > last_ts THEN page'.max_ts ELSE last_ts]_vars

\* reached: a successful poll of a page whose largest timestamp is not its
\* last one has moved the cursor to that largest timestamp
C2_Witness ==
    /\ task["poller"] = "sleep"
    /\ page.kind = "ok"
    /\ q # <<>>
    /\ q[Len(q)].seq = enq_count
    /\ PollerTs(q[Len(q)].item) < page.max_ts
    /\ last_ts = page.max_ts

\* ---- C3 ----

\* C3: the queue never holds more than queue_max items and holds the most
\* recently enqueued ones in the order they were enqueued; a poll that
\* enqueues k items removes items from the head only, only as many as do
\* not fit, and leaves the new items at the tail.
C3_DropOldest ==
    /\ [](/\ Len(q) <= config.queue_max
          /\ \A i \in 1..Len(q) : q[i].seq = enq_count - Len(q) + i)
    /\ [][enq_count' > enq_count =>
            /\ Len(q') = IF Len(q) + (enq_count' - enq_count) < config.queue_max
                         THEN Len(q) + (enq_count' - enq_count)
                         ELSE config.queue_max
            /\ q'[Len(q')].seq = enq_count'
            /\ \A i \in 1..Len(q') :
                  q'[i].seq <= enq_count =>
                     \E j \in 1..Len(q) : q[j] = q'[i] /\ Len(q) - j = Len(q') - i
                                               - (enq_count' - enq_count)]_vars

\* reached: the queue is full and an item was dropped from its head (more
\* items were enqueued than were taken or are queued)
C3_Witness ==
    /\ Len(q) = config.queue_max
    /\ enq_count > Len(q) + Len(log)
    /\ q[Len(q)].seq = enq_count

\* ---- C4 ----

\* the event time in milliseconds: a feed timestamp below the cutoff is in
\* seconds, any other in milliseconds
C4_EventMs(it) == IF it.ts < SecondsCutoff THEN it.ts * MsPerSecond ELSE it.ts

\* the age of the event of log entry e when it was dequeued exceeds max_delay
C4_TooOld(e) == e.now * MsPerSecond - C4_EventMs(e.item) > config.max_delay * MsPerSecond

\* C4 as stated: a dequeued event older than max_delay causes no risk check,
\* no order and no ledger change.
C4_StaleDropped ==
    [][(Dequeues /\ C4_TooOld(log'[Len(log')])) => NothingDone]_vars

\* C4, amended: for max_delay other than 0, a dequeued event older than
\* max_delay causes no risk check, no order and no ledger change, and no
\* order is ever submitted for it.
C4_StaleDroppedWhenGated ==
    /\ [][(Dequeues /\ config.max_delay # 0 /\ C4_TooOld(log'[Len(log')]))
            => NothingDone]_vars
    /\ [](config.max_delay # 0 =>
            \A k \in 1..Len(log) :
               C4_TooOld(log[k]) => \A i \in 1..Len(orders) : orders[i].seq # log[k].seq)

\* reached: with max_delay set, an event in seconds and an event in
\* milliseconds have each been dequeued older than max_delay
C4_Witness ==
    /\ config.max_delay # 0
    /\ \E k \in 1..Len(log) : C4_TooOld(log[k]) /\ log[k].item.ts < SecondsCutoff
    /\ \E k \in 1..Len(log) : C4_TooOld(log[k]) /\ log[k].item.ts >= SecondsCutoff

\* ---- C5 ----

\* the six rules of the risk gate, each stated on the arguments of the call
\* and on the daily figures as they stand once a due daily reset is done
C5_Rules(c) ==
    LET cost == RMul(c.size, c.price)
        due == c.date > c.before.last_reset_date
        count == IF due THEN 0 ELSE Len(c.before.daily_trades)
        pnl == IF due THEN RZero ELSE c.before.daily_pnl
    IN  <<c.before.emergency_stop,
          RGt(cost, c.before.max_bet_size),
          RLt(c.balance, cost),
          RLt(RSub(c.balance, cost), c.before.min_balance_threshold),
          c.before.max_daily_trades > 0 /\ count >= c.before.max_daily_trades,
          RGt(c.before.daily_loss_limit, RZero)
              /\ RLt(pnl, RNeg(c.before.daily_loss_limit))>>

C5_Reasons ==
    <<ReasonEmergency, ReasonMaxBet, ReasonBalance, ReasonThreshold,
      ReasonDailyTrades, ReasonDailyLoss>>

\* C5: check_pre_trade allows a trade exactly when none of the six rules is
\* violated, and otherwise gives the reason of the first violated rule in the
\* order emergency stop, max bet size, balance, balance floor, daily trade
\* cap, daily loss limit; with the emergency stop set the reason is the
\* emergency-stop reason whatever else is violated.
C5_RiskPrecedence ==
    risk_last.op = "check_pre_trade" =>
        LET rules == C5_Rules(risk_last)
            broken == {i \in 1..6 : rules[i]}
        IN  /\ risk_last.allowed <=> broken = {}
            /\ broken = {} => risk_last.reason = ReasonPassed
            /\ broken # {} =>
                 \E i \in broken :
                    /\ \A j \in broken : i <= j
                    /\ risk_last.reason = C5_Reasons[i]
            /\ risk_last.before.emergency_stop => risk_last.reason = ReasonEmergency

\* reached: a check made with the emergency stop set and with the max bet
\* size and the balance rules violated as well
C5_Witness ==
    /\ risk_last.op = "check_pre_trade"
    /\ risk_last.before.emergency_stop
    /\ C5_Rules(risk_last)[2]
    /\ C5_Rules(risk_last)[3]
    /\ risk_last.reason = ReasonEmergency

\* ---- C6 ----

\* C6: on a paper account with no position on M, a successful buy of S at P
\* followed by a sell of the full S at P' leaves balance = B + S*(P'-P), the
\* cumulative PnL increased by S*(P'-P) and no position on M.
C6_BuySellConservation ==
    \A i \in PaperCalls :
        (/\ i + 1 \in PaperCalls
         /\ IsBuy(calls[i]) /\ calls[i].ok
         /\ calls[i].market \notin DOMAIN calls[i].before.paper.positions
         /\ IsSell(calls[i + 1])
         /\ calls[i + 1].market = calls[i].market
         /\ calls[i + 1].size = calls[i].size)
        =>
        LET b == calls[i].before.paper
            a == calls[i + 1].after.paper
            gain == RMul(calls[i].size, RSub(calls[i + 1].price, calls[i].price))
        IN  /\ calls[i + 1].ok
            /\ a.balance = RAdd(b.balance, gain)
            /\ a.total_pnl = RAdd(b.total_pnl, gain)
            /\ calls[i].market \notin DOMAIN a.positions

\* reached: a buy at 0.40 and the full sell at 0.70, with a gain
C6_Witness ==
    \E i \in PaperCalls :
        /\ i + 1 \in PaperCalls
        /\ IsBuy(calls[i]) /\ calls[i].ok
        /\ calls[i].market \notin DOMAIN calls[i].before.paper.positions
        /\ IsSell(calls[i + 1]) /\ calls[i + 1].ok
        /\ calls[i + 1].market = calls[i].market
        /\ calls[i + 1].size = calls[i].size
        /\ RLt(calls[i].price, calls[i + 1].price)
        /\ RGt(paper.balance, RInt(InitialBalance))

\* ---- C7 ----

\* C7: record_trade with side sell on a market with no open position returns
\* unmatched_sell with realized_pnl 0 and leaves the open positions, the
\* closed positions, realized_pnl_total and the file unchanged; no position
\* of the tracker ever has a size of 0 or less.
C7_UnmatchedSell ==
    /\ \A i \in TrackerCalls :
          (IsSell(calls[i]) /\ calls[i].market \notin DOMAIN calls[i].before.tracker.positions)
          => /\ calls[i].status = "unmatched_sell"
             /\ calls[i].realized_pnl = RZero
             /\ calls[i].after.tracker = calls[i].before.tracker
             /\ calls[i].after.tracker_file = calls[i].before.tracker_file
    /\ \A m \in DOMAIN tracker.positions : RGt(tracker.positions[m].size, RZero)

\* reached: an unmatched sell on one market while another market is open and
\* the file has been written
C7_Witness ==
    \E i \in TrackerCalls :
        /\ calls[i].status = "unmatched_sell"
        /\ calls[i].before.tracker.positions # EmptyDict
        /\ calls[i].before.tracker_file.exists

\* ---- C8 ----

C8_MustFail(c) ==
    LET acct == c.before.paper IN
    \/ IsBuy(c) /\ RGt(RMul(c.size, c.price), acct.balance)
    \/ IsSell(c) /\ c.market \notin DOMAIN acct.positions
    \/ IsSell(c) /\ c.market \in DOMAIN acct.positions
                 /\ RGt(c.size, acct.positions[c.market].size)

\* C8: place_order fails closed: a buy that costs more than the balance, a
\* sell with no position and a sell of more than is held return
\* success = false and leave balance, positions, trades, total PnL and the
\* file as they were.
C8_FailsClosed ==
    \A i \in PaperCalls :
        C8_MustFail(calls[i])
        => /\ ~calls[i].ok
           /\ calls[i].after.paper = calls[i].before.paper
           /\ calls[i].after.paper_file = calls[i].before.paper_file

\* reached: each of the three failures, the sell of too much among them
C8_Witness ==
    /\ \E i \in PaperCalls :
          /\ IsSell(calls[i])
          /\ calls[i].market \in DOMAIN calls[i].before.paper.positions
          /\ RGt(calls[i].size, calls[i].before.paper.positions[calls[i].market].size)
          /\ ~calls[i].ok
    /\ \E i \in PaperCalls :
          /\ IsBuy(calls[i])
          /\ RGt(RMul(calls[i].size, calls[i].price), calls[i].before.paper.balance)
          /\ ~calls[i].ok

\* ---- C9 ----

\* the buys that took effect on market m, in the ledger the behaviour calls
C9_Buys(m) ==
    {i \in 1..Len(calls) : IsBuy(calls[i]) /\ calls[i].market = m /\ calls[i].ok}
C9_NoSell(m) ==
    \A i \in 1..Len(calls) : ~(IsSell(calls[i]) /\ calls[i].market = m)
C9_Positions ==
    IF OnlyLedger("paper") THEN paper.positions ELSE tracker.positions

\* C9: in both ledgers, after buys only on a market, the position size is the
\* sum of the bought sizes and avg_price * size is the sum of size_i * price_i.
C9_WeightedAverage ==
    \A m \in Markets :
        (C9_NoSell(m) /\ C9_Buys(m) # {})
        => /\ m \in DOMAIN C9_Positions
           /\ C9_Positions[m].size =
                 RSum([i \in 1..Len(calls) |-> calls[i].size], C9_Buys(m))
           /\ RMul(C9_Positions[m].avg_price, C9_Positions[m].size) =
                 RSum([i \in 1..Len(calls) |-> RMul(calls[i].size, calls[i].price)],
                      C9_Buys(m))

\* reached: 10 @ 0.40 then 5 @ 0.70 on the paper account: 15 @ 0.50
C9_Witness ==
    /\ OnlyLedger("paper")
    /\ Len(calls) = 2
    /\ C9_NoSell("M1")
    /\ "M1" \in DOMAIN paper.positions
    /\ paper.positions["M1"].size = RInt(15)
    /\ paper.positions["M1"].avg_price = Rat(1, 2)

\* ---- C10 ----

\* C10 as stated: once stop() has been called, run() eventually returns (and
\* with it the three tasks have ended).
C10_StopTerminates ==
    stop_called ~> (run_pc = "returned" /\ \A t \in Tasks : task[t] \in Final)

\* ---- C11 ----

\* C11 as stated: a poll that ends in an exception (the poller goes from its
\* request to the backoff sleep) leaves the cursor as it was.
C11_CursorKeptOnError ==
    [][(task["poller"] = "fetch" /\ task'["poller"] = "backoff")
         => last_ts' = last_ts]_vars

\* ---- C12 ----

\* C12 as stated: while running is true the poller task is never ended by a
\* network or parse error, be it in the bootstrap fetch or in a later one.
C12_PollerSurvivesErrors == ~(running /\ task["poller"] = "failed")

\* ---- C13 ----

\* C13: orders are submitted in the order in which their events were
\* enqueued, an order is submitted only when none is in flight, and the order
\* in flight is the last one submitted.
C13_FifoOneInFlight ==
    /\ [](\A i, j \in 1..Len(orders) : i < j => orders[i].seq < orders[j].seq)
    /\ [][Len(orders') > Len(orders)
            => /\ inflight.state = "none"
               /\ Len(orders') = Len(orders) + 1
               /\ inflight'.state = "running"]_vars
    /\ [](inflight.state # "none"
            => /\ orders # <<>>
               /\ inflight.order = orders[Len(orders)].order)

\* reached: a second order is in flight, submitted after an event in between
\* was dropped
C13_Witness ==
    /\ Len(orders) >= 2
    /\ inflight.state = "running"
    /\ \E k \in 1..Len(log) :
          /\ orders[1].seq < log[k].seq
          /\ log[k].seq < orders[2].seq

\* ---- C14 ----

\* C14 as stated: whenever the consumer is not in the middle of an event,
\* the position tracker and the paper account hold the same open markets,
\* each with the same size and the same average price.
C14_LedgersAgree ==
    inflight.state = "none" =>
        /\ DOMAIN tracker.positions = DOMAIN paper.positions
        /\ \A m \in DOMAIN tracker.positions :
              /\ tracker.positions[m].size = paper.positions[m].size
              /\ tracker.positions[m].avg_price = paper.positions[m].avg_price

\* ---- C15 ----

\* C15 as stated: when the process has stopped during a write of _save_data,
\* the ledger file holds the complete document of before the call or the
\* complete document of the call (in the call record, after is what the
\* call would have written).
C15_AtomicRewrite ==
    \A i \in 1..Len(calls) :
       calls[i].crashed =>
          /\ paper_file \in {calls[i].before.paper_file, calls[i].after.paper_file}
          /\ tracker_file \in {calls[i].before.tracker_file, calls[i].after.tracker_file}

\* ---- C16 ----

\* the status the claim gives for a record_trade call, from the side, the
\* size and the open position before the call
C16_Expected(c) ==
    LET open == c.market \in DOMAIN c.before.tracker.positions
    IN  IF IsBuy(c) THEN (IF open THEN "increased" ELSE "opened")
        ELSE IF IsSell(c)
        THEN IF ~open THEN "unmatched_sell"
             ELSE IF RLt(c.size, c.before.tracker.positions[c.market].size)
             THEN "reduced"
             ELSE "closed"
        ELSE "ignored"

\* C16: record_trade returns opened, increased, reduced, closed,
\* unmatched_sell or ignored as the side, the size and the open position
\* before the call determine, and an ignored call changes neither the
\* tracker nor its file.
C16_Statuses ==
    \A i \in TrackerCalls :
       /\ calls[i].status = C16_Expected(calls[i])
       /\ calls[i].status = "ignored"
            => /\ calls[i].after.tracker = calls[i].before.tracker
               /\ calls[i].after.tracker_file = calls[i].before.tracker_file

\* reached: a position was opened, reduced and closed
C16_Witness ==
    /\ Len(calls) = 3
    /\ calls[1].ledger = "tracker"
    /\ <<calls[1].status, calls[2].status, calls[3].status>>
         = <<"opened", "reduced", "closed">>

\* ---- C17 ----

\* the record_trade calls that closed a position, oldest first
C17_Closings == SelectSeq(calls, LAMBDA c : c.ledger = "tracker" /\ c.status = "closed")

\* C17 as stated: for every retention limit max_closed >= 0 the closed list
\* holds at most max_closed entries, and they are the most recently closed
\* positions in closing order.
C17_BoundedRetention ==
    LET closed == tracker.closed_positions
        n == Len(closed)
        all == C17_Closings
    IN  /\ n <= tracker.max_closed
        /\ n = IF Len(all) < tracker.max_closed THEN Len(all) ELSE tracker.max_closed
        /\ \A k \in 1..n :
              LET c == all[Len(all) - n + k]
              IN  /\ closed[k].market_id = c.market
                  /\ closed[k].exit_price = c.price
                  /\ closed[k].realized_pnl = c.realized_pnl

\* ---- C18 ----

C18_Invalid(c) ==
    \/ c.token_id = ""
    \/ c.side \notin {"buy", "BUY", "sell", "SELL"}
    \/ c.size[1] <= 0
    \/ c.price[1] <= 0
    \/ c.price[1] > c.price[2]

\* C18: execute_limit_order with an empty token id, a side other than buy
\* or sell, a size <= 0 or a price outside (0, 1] fails with a validation
\* error and leaves the paper account (balance, positions, trades) and its
\* file as they were.
C18_InvalidRejected ==
    \A i \in 1..Len(calls) :
       (calls[i].ledger = "executor" /\ C18_Invalid(calls[i]))
          => /\ ~calls[i].ok
             /\ calls[i].error = "Validation failed"
             /\ calls[i].after.paper = calls[i].before.paper
             /\ calls[i].after.paper_file = calls[i].before.paper_file

\* reached: after a filled buy, a buy that is invalid for its price alone
\* (above 1, and affordable) was rejected
C18_Witness ==
    /\ Len(calls) = 2
    /\ calls[1].ledger = "executor" /\ calls[1].ok
    /\ calls[2].token_id = "T1" /\ calls[2].side = "buy"
    /\ calls[2].size = RInt(5) /\ calls[2].price = Rat(3, 2)
    /\ ~calls[2].ok
    /\ paper.trades # <<>>

\* ---- C19 ----

\* the step in which the consumer receives a failed execution result
C19_FailureStep ==
    /\ inflight.state = "done"
    /\ ~inflight.result.success
    /\ inflight'.state = "none"

\* C19 as stated: the key of an order that failed stays in the dedup cache,
\* and no later order is submitted for the same key.
C19_FailedKeyStays ==
    \A i \in 1..Len(orders) :
       orders[i].result = "failed"
          => /\ orders[i].key \in processed_trades
             /\ \A j \in 1..Len(orders) : j > i => orders[j].key # orders[i].key

\* C19, amended: each dequeue submits at most one order and nothing else
\* submits one; a failed result leaves the position ledger, the risk gate's
\* daily count and daily PnL, the queue and the dedup cache as they were; and
\* a later copy of the event of a failed order gets past the duplicate
\* checks only when its key is no longer in the cache.
C19_FailureNotRetried ==
    [][ /\ Len(orders') <= Len(orders) + 1
        /\ Len(orders') = Len(orders) + 1 => Dequeues
        /\ Dequeues
              => \A i \in 1..Len(orders) :
                    (/\ orders[i].result = "failed"
                     /\ orders[i].key = log'[Len(log')].key
                     /\ log'[Len(log')].outcome \in {"wallet", "risk", "submitted"})
                      => orders[i].key \notin processed_trades
        /\ C19_FailureStep
              => /\ tracker' = tracker
                 /\ tracker_file' = tracker_file
                 /\ risk'.daily_trades = risk.daily_trades
                 /\ risk'.daily_pnl = risk.daily_pnl
                 /\ q' = q
                 /\ processed_trades' = processed_trades
                 /\ orders'[Len(orders')].result = "failed" ]_vars

\* reached: an order failed, and a later copy of its event was dequeued
\* while its key was in the cache and was dropped
C19_Witness ==
    \E i \in 1..Len(orders), k \in 1..Len(log) :
       /\ orders[i].result = "failed"
       /\ log[k].seq > orders[i].seq
       /\ log[k].key = orders[i].key
       /\ log[k].outcome = "duplicate"

\* ---- C20 ----

\* C20: every step that submits an order is the step of a check_pre_trade
\* call made with the order's size, the event's price and the paper balance
\* of that moment, which returned allowed; the order's cost is at most
\* max_bet_size and the emergency stop was not set at the check.
C20_SubmittedOnlyIfAllowed ==
    [][ Len(orders') = Len(orders) + 1
          => LET o == orders'[Len(orders')].order
                 cost == <<o.size[1] * o.price[1], o.size[2] * o.price[2]>>
                 limit == risk.max_bet_size
             IN  /\ risk_last'.op = "check_pre_trade"
                 /\ risk_last'.allowed
                 /\ risk_last'.size = o.size
                 /\ risk_last'.price = o.price
                 /\ o.price = Head(q).item.price
                 /\ risk_last'.balance = paper.balance
                 /\ risk_ops' = risk_ops + 1
                 /\ cost[1] * limit[2] <= limit[1] * cost[2]
                 /\ ~risk.emergency_stop
                 /\ inflight'.order = o ]_vars

\* reached: one event was blocked by the risk check and another one, allowed,
\* was submitted
C20_Witness ==
    /\ \E k \in 1..Len(log) : log[k].outcome = "risk"
    /\ orders # <<>>
    /\ risk.max_bet_size = RInt(EdgeMaxBet)
    /\ risk_last.op = "check_pre_trade"
    /\ risk_last.allowed
    /\ inflight.state = "running"

\* ---- C21 ----

\* C21: once a pipeline task has ended with an exception, run() eventually
\* returns with running false and all three tasks ended; and whenever run()
\* has returned after starting the tasks, none of them is still running.
C21_FailureShutsDown ==
    /\ (\E t \in Tasks : task[t] = "failed")
          ~> (run_pc = "returned" /\ ~running /\ \A t \in Tasks : task[t] \in Final)
    /\ [](run_pc = "returned"
            => ~running /\ \A t \in Tasks : task[t] \in Final \cup {"none"})
    /\ [][run_pc = "wait" /\ run_pc' = "gather" /\ (\E t \in Tasks : task[t] = "failed")
            => cancel_req' = {t \in Tasks : task[t] \notin {"done", "failed", "cancelled"}}
         ]_vars

\* reached: the poller ended with an exception while the consumer was
\* suspended in q.get() and the status task in its sleep, and run() has
\* returned with both of them cancelled
C21_Witness ==
    /\ run_pc = "returned"
    /\ task["poller"] = "failed"
    /\ task["consumer"] = "cancelled"
    /\ task["status"] = "cancelled"
    /\ ~stop_called

\* ---- C22 ----

\* C22: every item in the queue has a timestamp at or below the cursor (the
\* cursor has its final value for a page when the page's items appear in the
\* queue), and no put of the poller's enqueue loop ever finds the queue full:
\* whatever page arrives and however full the queue is, the poll completes
\* without waiting for the consumer.
C22_CursorFirstNoWait ==
    /\ \A i \in 1..Len(q) : PollerTs(q[i].item) <= last_ts
    /\ task["poller"] = "fetch"
          => \A items \in Pages : ~EnqueueWaits(q, items, config.queue_max)

\* reached: a poll succeeded although the queue was full (an item was
\* dropped from its head), and the cursor is at the page's largest timestamp
C22_Witness ==
    /\ task["poller"] = "sleep"
    /\ page.kind = "ok"
    /\ last_ts = page.max_ts
    /\ Len(q) = config.queue_max
    /\ enq_count > Len(q) + Len(log)
    /\ \A i \in 1..Len(q) : PollerTs(q[i].item) <= last_ts

\* ---- C23 ----

\* the delay after the k-th failure in a row, in tenths of a second
C23_Delay(k) ==
    IF BackoffStart * 2^(k - 1) < BackoffCap THEN BackoffStart * 2^(k - 1)
    ELSE BackoffCap

\* C23: the delay slept after the k-th consecutive failed poll is
\* min(0.2 * 2^(k-1), 5.0) seconds, and after a successful poll the delay
\* for the next failure is 0.2 seconds again.
C23_BackoffSchedule ==
    /\ task["poller"] = "backoff" => fails >= 1 /\ backoff = C23_Delay(fails)
    /\ task["poller"] = "fetch" => backoff = C23_Delay(fails + 1)
    /\ task["poller"] = "sleep" => fails = 0 /\ backoff = BackoffStart

\* reached: the poller sleeps the capped delay for the second time, after
\* seven failures in a row that followed a successful poll
C23_Witness ==
    /\ task["poller"] = "backoff"
    /\ fails = 7
    /\ backoff = BackoffCap
    /\ enq_count > 0

\* ---- C24 ----

\* the queue entries put by the step
C24_New == {i \in 1..Len(q') : q'[i].seq > enq_count}

\* the events enqueued so far that are still known: dequeued, or in the queue
C24_Seen == [i \in 1..(Len(log) + Len(q)) |->
               IF i <= Len(log) THEN log[i].item ELSE q[i - Len(log)].item]

\* C24: on a feed that honours start, every item a poll enqueues has a
\* timestamp above the cursor before that poll (the bootstrap cursor, for the
\* first poll; the cursor never decreases), and no item is enqueued twice.
C24_NoReplay ==
    /\ [][/\ \A i \in C24_New : PollerTs(q'[i].item) > last_ts
          /\ last_ts # NoCursor => last_ts' >= last_ts
          /\ enq_count' > enq_count => last_ts # NoCursor]_vars
    /\ [](\A i, j \in 1..Len(C24_Seen) : i < j => C24_Seen[i] # C24_Seen[j])

\* reached: the cursor was bootstrapped at the first event, and the two later
\* events, and only they, were enqueued
C24_Witness ==
    /\ feed = FeedEvents
    /\ enq_count = 2
    /\ fetched = 2
    /\ last_ts = 3
    /\ Len(C24_Seen) = 2
    /\ \A i \in 1..2 : C24_Seen[i].ts = 3
    /\ task["poller"] = "fetch"
    /\ page.kind = "ok"

\* ---- C25 ----

\* C25 as stated: on a feed that answers, every event with a timestamp above
\* the bootstrap cursor is eventually put into the queue (with an unbounded
\* queue every event put into it stays in it or has been dequeued).
C25_AllEnqueued ==
    \A b \in 0..3 :
       (page.kind = "bootstrap" /\ last_ts = b /\ config.queue_max = 0)
          ~> (\A e \in feed :
                 PollerTs(e) > b => \E i \in 1..Len(C24_Seen) : C24_Seen[i] = e)

\* ---- C26 ----

\* the dequeues that added their key to the dedup cache
C26_Adds == {k \in 1..Len(log) : log[k].outcome \in {"wallet", "risk", "submitted"}}

\* the last dequeue up to k that added the key x
C26_LastAdded(x, k) ==
    CHOOSE j \in C26_Adds :
       /\ j <= k /\ log[j].key = x
       /\ \A i \in C26_Adds : (i <= k /\ log[i].key = x) => i <= j

\* C26 as stated: a shrink keeps the most recently added keys, so it never
\* evicts the key just added and never evicts a key added after one it keeps.
C26_KeepsMostRecent ==
    \A k \in C26_Adds :
       /\ log[k].key \notin log[k].evicted
       /\ \A x \in log[k].evicted, y \in (log[k].cache \cup {log[k].key}) \ log[k].evicted :
             C26_LastAdded(x, k) < C26_LastAdded(y, k)

\* ---- C27 ----

\* C27: the dedup cache never holds more keys than its high-water mark (3000
\* in the program), however many events were handled.
C27_CacheBounded == Cardinality(processed_trades) <= DedupeHigh

\* reached: three events with three different keys were handled, the cache
\* was shrunk twice and is at its high-water mark
C27_Witness ==
    /\ Len(log) = 3
    /\ \A k \in 1..3 : log[k].outcome \in {"wallet", "risk", "submitted"}
    /\ Cardinality({log[k].key : k \in 1..3}) = 3
    /\ log[2].evicted # {} /\ log[3].evicted # {}
    /\ Cardinality(processed_trades) = DedupeHigh

\* ---- C28 ----

\* C28 as stated: an event is dropped as a duplicate only if the same event
\* got past the duplicate checks before, and two different dequeued events
\* never have the same dedup key.
C28_NoFalseDuplicate ==
    /\ \A k \in 1..Len(log) :
          log[k].outcome = "duplicate"
             => \E j \in 1..(k - 1) :
                   /\ log[j].item = log[k].item
                   /\ log[j].outcome \in {"wallet", "risk", "submitted"}
    /\ \A j, k \in 1..Len(log) :
          log[j].item # log[k].item => log[j].key # log[k].key

\* ---- C29 ----

\* C29 as stated: an event dropped by the staleness gate or by the wallet
\* filter has its key in the cache afterwards.
C29_KeyAddedBeforeGates ==
    [][Dequeues /\ log'[Len(log')].outcome \in {"stale", "wallet"}
          => log'[Len(log')].key \in processed_trades']_vars

\* C29, amended: a dequeued event that is older than max_delay (the gate
\* being on) and whose hash is not cached is dropped with the cache left as
\* it was; an event of another wallet that passes the gate and whose key is
\* not cached is dropped after its key was added and the cache shrunk, so
\* that its key is in the cache unless the shrink evicted it.  Neither
\* causes a risk check, an order or a ledger change.
C29_KeyAddedAfterStaleGate ==
    [][Dequeues =>
         LET e == log'[Len(log')]
             old == config.max_delay # 0 /\ C4_TooOld(e)
             hash_cached == e.item.tx # "" /\ <<e.item.tx>> \in processed_trades
             foreign == e.item.wallet \notin {"0xabc", "0xABC"}
         IN  /\ (old /\ ~hash_cached)
                   => /\ e.outcome = "stale"
                      /\ processed_trades' = processed_trades
                      /\ NothingDone
             /\ (foreign /\ ~old /\ e.key \notin processed_trades)
                   => /\ e.outcome = "wallet"
                      /\ processed_trades' = (processed_trades \cup {e.key}) \ e.evicted
                      /\ e.evicted \subseteq processed_trades \cup {e.key}
                      /\ Cardinality(processed_trades') <= DedupeHigh
                      /\ NothingDone]_vars

\* reached: the other wallet's event was dropped by the wallet filter and its
\* key is in the cache; then an event of the target wallet was dropped by
\* the staleness gate and its key is not in the cache
C29_Witness ==
    /\ Len(log) = 2
    /\ log[1].outcome = "wallet" /\ log[1].key = <<"h5">>
    /\ log[2].outcome = "stale" /\ log[2].item.wallet = "0xabc"
    /\ processed_trades = {<<"h5">>}

\* ---- C30 ----

\* C30 as stated: with no order in flight, the risk gate's daily PnL is the
\* sum of the PnL realized by the trades replicated that day, which is the
\* paper account's total PnL (the account starts the day with none).
C30_DailyPnlIsRealized ==
    (inflight.state = "none" /\ risk.last_reset_date = today)
       => risk.daily_pnl = paper.total_pnl

\* ------------------------------------------------------------------------
\* C31: with max_daily_trades = C > 0, the orders executed successfully
\* between two daily resets are never more than C.  An order belongs to the
\* reset period of the risk state that admitted it: the next reset can come
\* no earlier than that order's own record_trade.
\* ------------------------------------------------------------------------

C31_Executed(d) ==
    {i \in 1..Len(orders) : orders[i].result = "success" /\ orders[i].date = d}

C32_Fresh ==
    [risk_last.before EXCEPT !.daily_trades = <<>>, !.daily_pnl = RZero,
                             !.last_reset_date = risk_last.date]

C32_Later == risk_last.date > risk_last.before.last_reset_date

C32_LazyReset ==
    /\ (C32_Later /\ risk_last.op = "check_pre_trade") =>
          /\ risk = C32_Fresh
          /\ risk_last.allowed =
                RiskDecision(C32_Fresh, risk_last.size, risk_last.price,
                             risk_last.balance).allowed
    /\ (C32_Later /\ risk_last.op = "get_daily_stats") => risk = C32_Fresh
    /\ (C32_Later /\ risk_last.op = "record_trade") =>
          /\ Len(risk.daily_trades) = 1
          /\ risk.daily_pnl = IF risk.daily_trades[1].has_pnl
                              THEN risk.daily_trades[1].pnl ELSE RZero
          /\ [risk EXCEPT !.daily_trades = <<>>, !.daily_pnl = RZero] = C32_Fresh
    /\ (~C32_Later /\ risk_last.op = "check_pre_trade") => risk = risk_last.before

\* a check made after midnight on a state with a trade and a PnL recorded
C32_Witness ==
    /\ C32_Later
    /\ risk_last.op = "check_pre_trade"
    /\ risk_last.before.daily_trades # <<>>
    /\ risk_last.before.daily_pnl # RZero

\* ------------------------------------------------------------------------
\* C33: each successful execution is followed by exactly one
\* RiskManager.record_trade call and exactly one PositionTracker.record_trade
\* call, which carries the executed side, size and price; an event that is a
\* duplicate, from another wallet, stale, rejected by the risk check or
\* failed in execution causes neither call.  The calls are made by the
\* continuation of the handler: an order that is with the executor, or has
\* come back from it, has the consumer waiting for it, uncancelled.
\* ------------------------------------------------------------------------

\* the orders whose result has been handled and was a success, oldest first
C33_Successes == SelectSeq(orders, LAMBDA o : o.result = "success")

\* the order the worker thread has executed with success and whose result
\* the handler has not yet taken
C33_Unrecorded == inflight.state = "done" /\ inflight.result.success

C34_InFlight == inflight.state # "none" /\ task["consumer"] = "exec"

C34_OnlyConsumerBlocked ==
    C34_InFlight =>
        /\ (task["poller"] = "fetch" /\ "poller" \notin cancel_req) =>
              \A items \in Pages : ENABLED PollFetchOk(items)
        /\ (task["poller"] = "sleep" /\ "poller" \notin cancel_req) =>
              ENABLED PollSleepDone
        /\ (task["status"] \in {"created", "sleep"} /\ "status" \notin cancel_req) =>
              ENABLED StatusStep
        /\ ~ENABLED ConsumeStep
        /\ ~ENABLED ConsumeIdle

\* an order is with the executor, the last page has moved the cursor past
\* the event of that order and its item waits in the queue, and the poller
\* and the status task are both about to run again
C34_Witness ==
    /\ C34_InFlight
    /\ inflight.state = "running"
    /\ page.kind = "ok"
    /\ last_ts > PollerTs(log[Len(log)].item)
    /\ q # <<>>
    /\ Head(q).seq > log[Len(log)].seq
    /\ task["poller"] = "sleep"
    /\ task["status"] = "sleep"

\* ------------------------------------------------------------------------
\* C35: the status task never reads the balance, the PnL or the positions
\* of the paper account while a trade is only partly applied to it, and the
\* status task changes none of balance, positions, ledger, risk state,
\* cursor, queue and dedup cache.
\* ------------------------------------------------------------------------

\* what the status task reads from the account: get_balance(), get_pnl()
C35_Read(acct) == <<acct.balance, acct.total_pnl>>

\* the account is part of the way through place_order, and what the status
\* task would read from it is neither what the account held before the
\* call nor what it holds after it
C35_Torn ==
    /\ inflight.state = "partial"
    /\ C35_Read(paper) # C35_Read(inflight.before)
    /\ C35_Read(paper) #
          C35_Read(ExecuteLimitOrder(inflight.before, paper_file, inflight.order,
                                     now).acct)

C35_StatusSeesWholeTrades ==
    [][StatusStep =>
          /\ ~C35_Torn
          /\ UNCHANGED <<paper, paper_file, tracker, tracker_file, risk, last_ts, q,
                         processed_trades>>]_vars

\* ------------------------------------------------------------------------
\* C36: after any sequence of buy and sell calls with size > 0 and price in
\* (0, 1] on either ledger, every retained open position has size > 0; a
\* sell that brings the size to 0 or below removes the position.
\* ------------------------------------------------------------------------

C36_Held(positions) == \A m \in DOMAIN positions : RGt(positions[m].size, RZero)

\* the call is a sell of at least the size held on its market
C36_Exhausts(c, positions) ==
    /\ IsSell(c)
    /\ c.market \in DOMAIN positions
    /\ RGe(c.size, positions[c.market].size)

C36_PositionsPositive ==
    /\ C36_Held(paper.positions)
    /\ C36_Held(tracker.positions)
    /\ \A i \in PaperCalls :
          (calls[i].ok /\ C36_Exhausts(calls[i], calls[i].before.paper.positions))
             => calls[i].market \notin DOMAIN calls[i].after.paper.positions
    /\ \A i \in TrackerCalls :
          C36_Exhausts(calls[i], calls[i].before.tracker.positions)
             => calls[i].market \notin DOMAIN calls[i].after.tracker.positions

\* a sell of a part has left a position with a smaller size, and a sell of
\* the rest has removed it
C36_Witness ==
    /\ Len(calls) = 3
    /\ IsSell(calls[2]) /\ IsSell(calls[3])
    /\ \/ /\ calls[2].ledger = "paper"
          /\ calls[2].market \in DOMAIN calls[2].after.paper.positions
          /\ C36_Exhausts(calls[3], calls[3].before.paper.positions)
          /\ calls[3].ok
          /\ paper.positions = EmptyDict
       \/ /\ calls[2].ledger = "tracker"
          /\ calls[2].market \in DOMAIN calls[2].after.tracker.positions
          /\ C36_Exhausts(calls[3], calls[3].before.tracker.positions)
          /\ tracker.positions = EmptyDict

\* ------------------------------------------------------------------------
\* C37: after any successful mutation of either ledger, a new instance
\* constructed from the persisted file has the state of the one in memory:
\* balance, positions, trade history and cumulative PnL of the paper
\* account; open positions, closed positions and realized PnL total of the
\* position tracker.
\* ------------------------------------------------------------------------

C37_Mutations ==
    {i \in 1..Len(calls) :
        \/ calls[i].ledger = "paper" /\ calls[i].ok
        \/ calls[i].ledger = "tracker"
             /\ calls[i].status \in {"opened", "increased", "reduced", "closed"}}

C38_Basis(acct) ==
    RSum([m \in DOMAIN acct.positions |->
             RMul(acct.positions[m].size, acct.positions[m].avg_price)],
         DOMAIN acct.positions)

C38_Conserved(acct) ==
    RSub(RAdd(acct.balance, C38_Basis(acct)), acct.total_pnl) = RInt(InitialBalance)

C38_PaperConservation ==
    /\ C38_Conserved(paper)
    /\ \A i \in PaperCalls :
          /\ C38_Conserved(calls[i].after.paper)
          /\ (calls[i].ok /\ IsSell(calls[i])
                /\ calls[i].market \in DOMAIN calls[i].after.paper.positions)
             => calls[i].after.paper.positions[calls[i].market].avg_price
                  = calls[i].before.paper.positions[calls[i].market].avg_price

\* two buys at different prices on one market, then a sell of a part of the
\* position at a price that differs from its average
C38_Witness ==
    /\ Len(calls) = 3
    /\ \A i \in 1..3 : calls[i].ledger = "paper" /\ calls[i].ok
    /\ IsBuy(calls[1]) /\ IsBuy(calls[2]) /\ IsSell(calls[3])
    /\ calls[1].price # calls[2].price
    /\ calls[3].market \in DOMAIN paper.positions
    /\ paper.total_pnl # RZero

\* ------------------------------------------------------------------------
\* C39: in paper mode, for an account that started with balance B0 and no
\* positions, after any sequence of events processed by the consumer the
\* balance is never below min(B0, min_balance_threshold) and never negative,
\* and no buy admitted by the risk gate is refused by the paper account for
\* insufficient balance.
\* ------------------------------------------------------------------------

C39_BalanceFloor ==
    /\ RGe(paper.balance, RMin(RInt(InitialBalance), risk.min_balance_threshold))
    /\ RGe(paper.balance, RZero)
    /\ (inflight.state = "done" /\ inflight.order.side = "buy")
          => /\ inflight.result.error # "Insufficient balance"
             /\ inflight.result.success

\* after a buy that was executed, the check has rejected a further buy that
\* the balance could pay for, because it would leave less than the threshold
C39_Witness ==
    /\ \E i \in 1..Len(orders) :
          orders[i].order.side = "buy" /\ orders[i].result = "success"
    /\ RLt(paper.balance, RInt(InitialBalance))
    /\ risk_last.op = "check_pre_trade"
    /\ risk_last.reason = ReasonThreshold
    /\ RGe(risk_last.balance, RMul(risk_last.size, risk_last.price))
    /\ log[Len(log)].item.side = "BUY"

\* ------------------------------------------------------------------------
\* C40 as stated: an exception raised while one event is handled never ends
\* the consumer task; the event is dropped with its dedup key left in the
\* cache (a key the shrink of that very step evicted apart).
\* ------------------------------------------------------------------------

\* this step is the consumer taking an item in whose handling an exception
\* is raised
C40_Raises == Dequeues /\ log'[Len(log')].outcome = "error"

====
